---- MODULE Spec2Model ----
(***************************************************************************)
(* A model of the orchestration core of gap_foundry:                       *)
(*   crew.py  Step1CrewFactory.create_tasks and the stage builders,        *)
(*            ProgressTracker and the task callback                        *)
(*   main.py  run_gap_foundry_engine, verdict extraction                   *)
(*   api.py   the job store, run_validation_job and its polling thread     *)
(*                                                                         *)
(* The specifications of the module:                                       *)
(*   SpecTasks      create_tasks on a bounded task configuration, followed *)
(*                  by the sequential execution of the stage built from it *)
(*   SpecEngine     run_gap_foundry_engine called from main() (no          *)
(*                  callback); SpecEngineLive adds that the engine, one    *)
(*                  thread of straight-line code, takes its next step      *)
(*   SpecApi        the API process: startup, validate_idea, the worker    *)
(*                  run_validation_job with the engine it calls, its       *)
(*                  polling thread, process restart                        *)
(*   SpecStore      _update_job_status and _save_jobs statement by         *)
(*                  statement, called by two threads at once;              *)
(*                  SpecStoreFaulty adds failures of the file write        *)
(*   SpecList       list_jobs on a bounded store and limit                 *)
(*   SpecExtract    _extract_verdict_from_crew applied more than once to   *)
(*                  one finished stage                                     *)
(*   SpecStream     the generator of stream_progress beside the worker     *)
(*                  that updates the run                                   *)
(*   SpecTasksLive  SpecTasks with the fairness of straight-line code      *)
(*   SpecFrame      SpecStore started from any set of stored runs          *)
(*   SpecParse      _parse_verdict_from_text on texts of several markers   *)
(*                                                                         *)
(* Granularity: but in SpecStore, one call of _update_job_status is one    *)
(* step; the worker                                                        *)
(* and the polling thread interleave between such steps, between the       *)
(* file writes of the discovery stage and between the polling thread's     *)
(* loop test, directory scan and update. The model follows one worker at   *)
(* a time. The polling thread's outputs directory is the directory the     *)
(* engine writes to (the server is run from the repository root).          *)
(* The names of the per-task output files depend on the task descriptions  *)
(* of config/tasks.yaml; they are an input of a run (file_names), and in   *)
(* SpecApi they are the names of TASK_FILENAME_MAP.                        *)
(***************************************************************************)
EXTENDS Integers, Sequences, FiniteSets, TLC

\* ------------------------------------------------------------------ bounds
\* most dependencies (context ids) one task of a configuration declares
MaxDeps == 2
\* most verdict-marker candidates in one task output text
MaxTextLen == 1

None == "None"

\* Optional[...] values: NoneOpt is Python's None, Some(v) a given value
NoneOpt(empty) == [some |-> FALSE, val |-> empty]
Some(v) == [some |-> TRUE, val |-> v]

\* ======================================================================
\* Part 1: Step1CrewFactory.create_tasks and the stage built from it
\* ======================================================================

\* The task ids of the bounded configurations. tasks.yaml is an input of the
\* program; the model ranges over every configuration on these ids.
TaskIds == {"revise_positioning", "red_team_recheck", "final_step1_report"}

\* One entry of tasks_cfg. kind "not_dict": the entry is no mapping;
\* "unknown_agent": its agent key is not among the created agents.
\* context is the entry's `context:` list, as the set of ids it names.
TaskCfgs ==
    { [kind |-> k, context |-> c] :
        k \in {"ok", "unknown_agent"},
        c \in {s \in SUBSET TaskIds : Cardinality(s) <= MaxDeps} }
    \cup { [kind |-> "not_dict", context |-> {}] }

Configs == UNION { [K -> TaskCfgs] : K \in SUBSET TaskIds }

\* Lists of task ids without repetition (the task_order lists of the builders)
TaskLists ==
    { s \in UNION { [1..n -> TaskIds] : n \in 0..Cardinality(TaskIds) } :
        \A i, j \in DOMAIN s : i # j => s[i] # s[j] }

AllowLists == {NoneOpt(<<>>)} \cup { Some(s) : s \in TaskLists }

Range(s) == { s[i] : i \in DOMAIN s }

VARIABLES
    tasks_cfg,          \* self.tasks_cfg
    allowed_task_ids,   \* the argument (None or the builder's task_order)
    remaining,          \* set of ids still to create
    allowed_set,        \* None or set(allowed_task_ids)
    tasks,              \* the dict being built, in insertion order: <<[id, context]>>
    pending,            \* ids of list(remaining) the for loop has not visited yet
    progress,           \* the pass's progress flag
    ct_pc,              \* position in create_tasks / the builder
    ct_error,           \* what was raised: None or [kind, blocked]
    executed,           \* ids of the stage's tasks completed by the crew, in order
    passes              \* passes of the while loop begun so far (a count kept
                        \* beside the code's variables)

tvars == <<tasks_cfg, allowed_task_ids, remaining, allowed_set, tasks, pending,
           progress, ct_pc, ct_error, executed, passes>>

TaskKeys(ts) == { ts[i].id : i \in DOMAIN ts }

\* mutant of CtxIds: the allow-list filter of the context is left out
CtxIdsUnfiltered(cfg, aset) == cfg.context

\* mutant of CtxIds: the declared context is dropped
CtxIdsDropped(cfg, aset) == {}

\* crew.py 742-749: the context ids kept for a task
CtxIds(cfg, aset) ==
    IF aset.some THEN cfg.context \cap aset.val ELSE cfg.context

\* mutant of DepsCreated: a task is created without waiting for its context
DepsCreatedNoCheck(ctx_ids, ts) == TRUE

\* crew.py 752: all(c in tasks for c in ctx_ids)
DepsCreated(ctx_ids, ts) == ctx_ids \subseteq TaskKeys(ts)

\* mutant of Blocked: every task of the configuration is reported
BlockedAllTasks(cfg, rem) == [tid \in DOMAIN cfg |-> cfg[tid].context]

\* crew.py 773-776: the payload of the "circular dependency" error
Blocked(cfg, rem) == [tid \in rem |-> cfg[tid].context]

\* crew.py 727-732
InitialRemaining(cfg, allowed) ==
    IF allowed.some
    THEN { tid \in Range(allowed.val) : tid \in DOMAIN cfg }
    ELSE DOMAIN cfg

InitialAllowedSet(allowed) ==
    IF allowed.some THEN Some(Range(allowed.val)) ELSE NoneOpt({})

NoError == [kind |-> "none", blocked |-> <<>>]

TasksInit ==
    /\ tasks_cfg \in Configs
    /\ allowed_task_ids \in AllowLists
    /\ remaining = {}
    /\ allowed_set = NoneOpt({})
    /\ tasks = <<>>
    /\ pending = {}
    /\ progress = FALSE
    /\ ct_pc = "call"
    /\ ct_error = NoError
    /\ executed = <<>>
    /\ passes = 0

\* crew.py 723-732: entry of create_tasks
CreateTasksEnter ==
    /\ ct_pc = "call"
    /\ remaining' = InitialRemaining(tasks_cfg, allowed_task_ids)
    /\ allowed_set' = InitialAllowedSet(allowed_task_ids)
    /\ tasks' = <<>>
    /\ ct_pc' = "while"
    /\ UNCHANGED <<passes, tasks_cfg, allowed_task_ids, pending, progress, ct_error, executed>>

\* crew.py 734-737: `while remaining:` true, a pass starts over list(remaining)
PassBegin ==
    /\ ct_pc = "while"
    /\ remaining # {}
    /\ progress' = FALSE
    /\ passes' = passes + 1
    /\ pending' = remaining
    /\ ct_pc' = "for"
    /\ UNCHANGED <<tasks_cfg, allowed_task_ids, remaining, allowed_set, tasks,
                   ct_error, executed>>

\* crew.py 734, 783: `while remaining:` false, return tasks
CreateTasksReturn ==
    /\ ct_pc = "while"
    /\ remaining = {}
    /\ ct_pc' = "returned"
    /\ UNCHANGED <<passes, tasks_cfg, allowed_task_ids, remaining, allowed_set, tasks,
                   pending, progress, ct_error, executed>>

\* crew.py 738-740: the entry is no mapping
ForBodyNotDict ==
    /\ ct_pc = "for"
    /\ \E task_id \in pending :
        /\ tasks_cfg[task_id].kind = "not_dict"
        /\ ct_error' = [kind |-> "ValueError:not_dict", blocked |-> <<>>]
    /\ ct_pc' = "raised"
    /\ UNCHANGED <<passes, tasks_cfg, allowed_task_ids, remaining, allowed_set, tasks,
                   pending, progress, executed>>

\* crew.py 752-758: dependencies created, agent unknown
ForBodyUnknownAgent ==
    /\ ct_pc = "for"
    /\ \E task_id \in pending :
        /\ tasks_cfg[task_id].kind = "unknown_agent"
        /\ DepsCreated(CtxIds(tasks_cfg[task_id], allowed_set), tasks)
        /\ ct_error' = [kind |-> "KeyError:agent", blocked |-> <<>>]
    /\ ct_pc' = "raised"
    /\ UNCHANGED <<passes, tasks_cfg, allowed_task_ids, remaining, allowed_set, tasks,
                   pending, progress, executed>>

\* crew.py 738-770: one iteration that creates the task
ForBodyCreate ==
    /\ ct_pc = "for"
    /\ \E task_id \in pending :
        LET ctx_ids == CtxIds(tasks_cfg[task_id], allowed_set) IN
        /\ tasks_cfg[task_id].kind = "ok"
        /\ DepsCreated(ctx_ids, tasks)
        /\ tasks' = Append(tasks, [id |-> task_id, context |-> ctx_ids])
        /\ remaining' = remaining \ {task_id}
        /\ pending' = pending \ {task_id}
    /\ progress' = TRUE
    /\ UNCHANGED <<passes, tasks_cfg, allowed_task_ids, allowed_set, ct_pc, ct_error, executed>>

\* crew.py 738-752: one iteration whose task still waits for a dependency
ForBodySkip ==
    /\ ct_pc = "for"
    /\ \E task_id \in pending :
        /\ tasks_cfg[task_id].kind # "not_dict"
        /\ ~DepsCreated(CtxIds(tasks_cfg[task_id], allowed_set), tasks)
        /\ pending' = pending \ {task_id}
    /\ UNCHANGED <<passes, tasks_cfg, allowed_task_ids, remaining, allowed_set, tasks,
                   progress, ct_pc, ct_error, executed, passes>>

\* mutant of PassEndProgress: a pass goes on to the next whatever it created
PassEndAlwaysLoops ==
    /\ ct_pc = "for"
    /\ pending = {}
    /\ ct_pc' = "while"
    /\ UNCHANGED <<passes, tasks_cfg, allowed_task_ids, remaining, allowed_set, tasks,
                   pending, progress, ct_error, executed>>

\* crew.py 772 with progress: next test of the while condition
PassEndProgress ==
    /\ ct_pc = "for"
    /\ pending = {}
    /\ progress
    /\ ct_pc' = "while"
    /\ UNCHANGED <<passes, tasks_cfg, allowed_task_ids, remaining, allowed_set, tasks,
                   pending, progress, ct_error, executed>>

\* mutant of PassEndBlocked: the loop is left with what was created so far
PassEndBlockedReturnsPartial ==
    /\ ct_pc = "for"
    /\ pending = {}
    /\ ~progress
    /\ ct_pc' = "returned"
    /\ UNCHANGED <<passes, tasks_cfg, allowed_task_ids, remaining, allowed_set, tasks,
                   pending, progress, ct_error, executed>>

\* crew.py 772-781: a pass without progress raises
PassEndBlocked ==
    /\ ct_pc = "for"
    /\ pending = {}
    /\ ~progress
    /\ ct_error' = [kind |-> "ValueError:blocked",
                    blocked |-> Blocked(tasks_cfg, remaining)]
    /\ ct_pc' = "raised"
    /\ UNCHANGED <<passes, tasks_cfg, allowed_task_ids, remaining, allowed_set, tasks,
                   pending, progress, executed>>

\* crew.py 898-903 (and 841-846, 970-972, 1018): ids of task_order not created
Missing(task_order, ts) == { t \in Range(task_order) : t \notin TaskKeys(ts) }

\* The builder after create_tasks returned: task_order contains an unknown id
BuildCrewMissing ==
    /\ ct_pc = "returned"
    /\ allowed_task_ids.some
    /\ Missing(allowed_task_ids.val, tasks) # {}
    /\ ct_error' = [kind |-> "KeyError:task_order", blocked |-> <<>>]
    /\ ct_pc' = "raised"
    /\ UNCHANGED <<passes, tasks_cfg, allowed_task_ids, remaining, allowed_set, tasks,
                   pending, progress, executed>>

\* crew.py 911-918: Crew(tasks=[tasks[t] for t in task_order], sequential)
BuildCrew ==
    /\ ct_pc = "returned"
    /\ allowed_task_ids.some
    /\ Missing(allowed_task_ids.val, tasks) = {}
    /\ ct_pc' = "crew"
    /\ UNCHANGED <<passes, tasks_cfg, allowed_task_ids, remaining, allowed_set, tasks,
                   pending, progress, ct_error, executed>>

\* crew.py 913: the task the sequential crew runs next
NextToExecute(task_order, done) == task_order[Len(done) + 1]

\* Process.sequential: the crew completes its tasks in the order of its list
ExecuteTask ==
    /\ ct_pc = "crew"
    /\ Len(executed) < Len(allowed_task_ids.val)
    /\ executed' = Append(executed, NextToExecute(allowed_task_ids.val, executed))
    /\ UNCHANGED <<passes, tasks_cfg, allowed_task_ids, remaining, allowed_set, tasks,
                   pending, progress, ct_pc, ct_error>>


\* ======================================================================
\* Part 2: the job store (api.py) as operators on the store
\* ======================================================================

VARIABLES
    jobs,        \* api.jobs: run_id -> record (a function on the ids present)
    job_logs,    \* api.job_logs: run_id -> list of log messages
    jobs_file    \* outputs/jobs.json: [exists, data], data a snapshot of jobs

svars == <<jobs, job_logs, jobs_file>>

\* api.py 104-112: JobStatus
TerminalStatuses == {"completed", "failed", "pregate_failed"}

\* Python truthiness of an optional string: None and "" are falsy
Truthy(x) == x \notin {None, ""}

\* api.py 311-321: the record validate_idea creates.
\* created_at / updated_at / inputs are not modelled.
NewJob ==
    [status |-> "queued", progress |-> 0, current_step |-> <<"msg", "queued">>,
     verdict |-> None, report_path |-> None, error_message |-> None]

\* api.py 163-176: _save_jobs writes a copy of every record
SaveJobs(js) == [exists |-> TRUE, data |-> js]

\* api.py 218-230: the record after _update_job_status
UpdatedRecord(rec, status, prog, step, verdict_, error_message, report_path) ==
    [rec EXCEPT
        !.status = status,
        !.progress = prog,
        !.current_step = step,
        !.verdict = IF Truthy(verdict_) THEN verdict_ ELSE @,
        !.error_message = IF Truthy(error_message) THEN error_message ELSE @,
        !.report_path = IF Truthy(report_path) THEN report_path ELSE @]

\* api.py 233: log_msg = f"[{progress}%] {current_step or status.value}"
LogMsg(status, prog, step) == <<prog, step>>

\* api.py 205-239: _update_job_status on the store st = [jobs, logs, file]
UpdateJobStatus(st, run_id, status, prog, step, verdict_, error_message, report_path) ==
    IF run_id \notin DOMAIN st.jobs
    THEN st
    ELSE LET js == [st.jobs EXCEPT ![run_id] =
                        UpdatedRecord(@, status, prog, step, verdict_,
                                      error_message, report_path)]
             lg == IF run_id \in DOMAIN st.logs
                   THEN [st.logs EXCEPT ![run_id] = Append(@, LogMsg(status, prog, step))]
                   ELSE [r \in DOMAIN st.logs \cup {run_id} |->
                            IF r = run_id THEN <<LogMsg(status, prog, step)>>
                            ELSE st.logs[r]]
         IN [jobs |-> js, logs |-> lg, file |-> SaveJobs(js)]

Store == [jobs |-> jobs, logs |-> job_logs, file |-> jobs_file]

SetStore(st) ==
    /\ jobs' = st.jobs
    /\ job_logs' = st.logs
    /\ jobs_file' = st.file

\* mutant of StatusForProgress: the band limits belong to the lower band
StatusForProgressInclusive(prog) ==
    IF prog <= 50 THEN "researching"
    ELSE IF prog <= 85 THEN "analyzing"
    ELSE "generating_report"

\* api.py 678-683 and 623-628: the status that goes with a percent
StatusForProgress(prog) ==
    IF prog < 50 THEN "researching"
    ELSE IF prog < 85 THEN "analyzing"
    ELSE "generating_report"

\* api.py 675-685: run_validation_job.progress_callback
ProgressCallback(st, run_id, task_id, status, prog) ==
    UpdateJobStatus(st, run_id, StatusForProgress(prog), prog, <<task_id, status>>,
                    None, None, None)

\* ======================================================================
\* Part 3: verdict parsing (main.py) and run_gap_foundry_engine
\* ======================================================================

\* What one place of a task output can hold: a "VERDICT: <word>" marker, or
\* "-" for text that holds no marker
NewFormatWords == {"LANDING_GO", "LANDING_HOLD", "LANDING_NO",
                   "VALIDATION_GO", "VALIDATION_HOLD", "VALIDATION_NO"}
LegacyWords == {"PASS", "FAIL"}
Tokens == NewFormatWords \cup LegacyWords \cup {"-"}

Texts == UNION { [1..n -> Tokens] : n \in 0..MaxTextLen }

\* re.search: the leftmost place of text holding a word of S
FirstMatch(text, S) ==
    CHOOSE i \in DOMAIN text :
        text[i] \in S /\ \A j \in DOMAIN text : j < i => text[j] \notin S

HasMatch(text, S) == \E i \in DOMAIN text : text[i] \in S

\* main.py 946: verdict.replace("VALIDATION_", "LANDING_")
ReplaceValidation(word) ==
    CASE word = "VALIDATION_GO" -> "LANDING_GO"
      [] word = "VALIDATION_HOLD" -> "LANDING_HOLD"
      [] word = "VALIDATION_NO" -> "LANDING_NO"
      [] OTHER -> word

\* mutant of ParseVerdictFromText: the leftmost marker of either format
ParseLeftmostMarker(text) ==
    IF HasMatch(text, NewFormatWords \cup LegacyWords)
    THEN LET w == text[FirstMatch(text, NewFormatWords \cup LegacyWords)]
         IN IF w = "PASS" THEN "LANDING_GO"
            ELSE IF w = "FAIL" THEN "LANDING_NO"
            ELSE ReplaceValidation(w)
    ELSE None

\* main.py 921-954: _parse_verdict_from_text
ParseVerdictFromText(text) ==
    IF text = <<>> THEN None
    ELSE IF HasMatch(text, NewFormatWords)
         THEN ReplaceValidation(text[FirstMatch(text, NewFormatWords)])
    ELSE IF HasMatch(text, LegacyWords)
         THEN (IF text[FirstMatch(text, LegacyWords)] = "PASS"
               THEN "LANDING_GO" ELSE "LANDING_NO")
    ELSE None

\* main.py 899-903: the saved file of a task is its header followed by the raw
\* output; the header (main.py 705-719) holds no verdict marker
SavedFileContent(raw) == <<"-">> \o raw

\* main.py 957-1036: _extract_verdict_from_crew. raw is the output of the last
\* red-team task of the crew (method 1); the file of that task holds the same
\* text behind its header (method 2); a CrewAI Crew has no result attribute
\* (method 3 finds nothing).
ExtractVerdictFromCrew(raw) ==
    LET v1 == ParseVerdictFromText(raw)
        v2 == ParseVerdictFromText(SavedFileContent(raw))
    IN IF Truthy(v1) THEN v1
       ELSE IF Truthy(v2) THEN v2
       ELSE "UNKNOWN"

\* crew.py 955-966: task_order of build_without_final_report(include_revision=False)
Pass1Order ==
    <<"discover_competitors", "compact_competitors", "analyze_channels",
      "extract_value_props", "summarize_channels_vp", "mine_gaps",
      "summarize_research", "create_pov_and_positioning", "red_team_review">>

\* crew.py 889-893: task_order of build_revision_only
RevisionOrder == <<"revise_positioning", "red_team_recheck">>

\* mutant of ReportOrder: the report stage runs the recheck again
ReportOrderWithRecheck == <<"red_team_recheck", "final_step1_report">>

\* crew.py 1006: task_order of build_final_report_only
ReportOrder == <<"final_step1_report">>

RedTeamTasks == {"red_team_review", "red_team_recheck"}

\* crew.py 35-39: ProgressTracker.STAGE_PROGRESS
StageProgress(stage) ==
    CASE stage = "pass1" -> <<5, 70>>
      [] stage = "revision" -> <<70, 85>>
      [] stage = "final_report" -> <<85, 100>>
      [] OTHER -> <<5, 95>>

\* mutant of ProgressPercent: the percent of the task after the one counted
ProgressPercentOvershoot(stage, idx, total) ==
    LET base == StageProgress(stage)[1]
        range == StageProgress(stage)[2] - StageProgress(stage)[1]
    IN base + (((idx + 1) * range) \div total)

\* crew.py 111-113 and 139-141: base + int((idx / total) * range).
\* The quotient is exact in floating point for the totals used (9, 2, 1)
\* wherever idx * range is a multiple of total, so int() is the floor.
ProgressPercent(stage, idx, total) ==
    LET base == StageProgress(stage)[1]
        range == StageProgress(stage)[2] - StageProgress(stage)[1]
    IN base + ((idx * range) \div total)

\* main.py 1337-1341: the defaults setdefault() gives the inputs of every run.
\* An artifact's text is named by the task whose output file holds it.
Inputs ==
    [landing_gate_verdict |-> "",
     previous_positioning_output |-> "",
     previous_red_team_output |-> "",
     research_summary |-> "",
     gap_hypotheses |-> ""]

\* main.py 1155-1166: the keys _load_pass1_outputs_for_revision returns
ArtifactKeys ==
    {"previous_positioning_output", "previous_red_team_output",
     "research_summary", "gap_hypotheses"}

\* main.py 1155-1166: the patterns tried for a key, in the order of the `or`s
PatternsOf(key) ==
    CASE key = "previous_positioning_output" -> <<"create_pov", "positioning", "pov">>
      [] key = "previous_red_team_output" -> <<"red_team_review", "red_team">>
      [] key = "research_summary" -> <<"summarize", "summary">>
      [] key = "gap_hypotheses" -> <<"mine_gaps", "gap">>

AllTasks == Range(Pass1Order) \cup Range(RevisionOrder) \cup Range(ReportOrder)

\* main.py 617-630 with 697-702: the patterns the lower-cased file name of a
\* task holds when the extracted task id is a key of TASK_FILENAME_MAP; only
\* "08_POV_포지셔닝" holds one of them
MappedNames ==
    [t \in AllTasks |->
        IF t = "create_pov_and_positioning" THEN {"pov"} ELSE {}]

\* main.py 675-702: otherwise the stem is NN_<first 30 characters of the id>,
\* the id being the first line of the task's description (crew.py 762-767
\* passes no name); here that line holds the task's id
IdNames ==
    [t \in AllTasks |->
        CASE t = "create_pov_and_positioning" -> {"create_pov", "positioning", "pov"}
          [] t = "revise_positioning" -> {"positioning"}
          [] t = "red_team_review" -> {"red_team_review", "red_team"}
          [] t = "red_team_recheck" -> {"red_team"}
          [] t \in {"summarize_channels_vp", "summarize_research"} -> {"summarize"}
          [] t = "mine_gaps" -> {"mine_gaps", "gap"}
          [] OTHER -> {}]

\* main.py 675-702: a first line that holds none of the patterns
PlainNames == [t \in AllTasks |-> {}]

\* The file names a configuration of the task descriptions can give
Namings == {MappedNames, IdNames, PlainNames}

\* What the lookup finds on disk: the files as written, files whose
\* read_text raises, or no directory (glob yields nothing)
FsStates == {"ok", "unreadable", "missing"}

VARIABLES
    file_names,     \* the patterns held by the name of each task's output file
    fs_state        \* what a lookup finds in a run directory

dvars == <<file_names, fs_state>>

\* The output files of a run: named by some configuration, found in any of
\* the three ways
DiskInit == file_names \in Namings /\ fs_state \in FsStates

\* The server's deployment: file names of TASK_FILENAME_MAP, files readable
DiskAsDeployed == file_names = MappedNames /\ fs_state = "ok"

\* main.py 1146-1151: the files read_md can return the text of
ReadableFiles(fs, files) == IF fs = "ok" THEN files ELSE {}

\* mutant of ReadMd: a lookup that finds nothing returns None
ReadMdNone(files, names, pattern) ==
    LET m == {t \in files : pattern \in names[t]}
    IN IF m = {} THEN {None} ELSE m

\* main.py 1144-1152: read_md(pattern), the text of the first globbed file
\* whose name holds the pattern (glob order is arbitrary), "" when none does
ReadMd(files, names, pattern) ==
    LET m == {t \in files : pattern \in names[t]}
    IN IF m = {} THEN {""} ELSE m

\* main.py 1155-1166: read_md(p1) or read_md(p2) or ...: the first truthy one
RECURSIVE FirstTruthy(_, _, _)
FirstTruthy(files, names, patterns) ==
    IF Len(patterns) = 1
    THEN ReadMd(files, names, patterns[1])
    ELSE LET r == ReadMd(files, names, patterns[1])
         IN (r \ {"", None}) \cup
            (IF r \cap {"", None} # {}
             THEN FirstTruthy(files, names, Tail(patterns))
             ELSE {})

\* main.py 1135-1167: the dicts _load_pass1_outputs_for_revision can return
\* for a directory holding the files of the given tasks
LoadPass1OutputsForRevision(files, names) ==
    {[previous_positioning_output |-> a, previous_red_team_output |-> b,
      research_summary |-> c, gap_hypotheses |-> d] :
        a \in FirstTruthy(files, names, PatternsOf("previous_positioning_output")),
        b \in FirstTruthy(files, names, PatternsOf("previous_red_team_output")),
        c \in FirstTruthy(files, names, PatternsOf("research_summary")),
        d \in FirstTruthy(files, names, PatternsOf("gap_hypotheses"))}

\* main.py 1391, 1410-1414: {**inputs, **outputs}
Merge(base, outputs) ==
    [k \in DOMAIN base |-> IF k \in DOMAIN outputs THEN outputs[k] ELSE base[k]]

\* main.py 1440-1446: the standard branch passes on two of the keys only
StandardReportInputs(v, outputs) ==
    [Inputs EXCEPT !.landing_gate_verdict = v,
                   !.research_summary = outputs["research_summary"],
                   !.gap_hypotheses = outputs["gap_hypotheses"]]

VARIABLES
    args,           \* [auto_revise, revise_no, dry_run]
    pregate_valid,  \* _pregate_check(inputs).is_valid, a function of the inputs
    has_callback,   \* progress_callback is not None
    run_id,         \* custom_run_id (the API's run id) or "cli"
    e_pc,           \* position in run_gap_foundry_engine
    crew,           \* the crew being run and its tracker
    verdict,        \* verdict after discovery
    final_verdict,  \* final_verdict
    revision_inputs, \* inputs of the revision stage
    report_inputs,  \* inputs of the report stage
    stage_times,    \* keys of stage_times
    run_dirs,       \* out_dir/runs: suffixes of the run directories that exist
    saved_files,    \* number of task files written in the discovery directory
    report_file,    \* the final report written by the engine
    exit_code,      \* the value returned
    error,          \* str(e) of the exception that left the engine
    trace           \* what the executor did, in order

evars == <<args, pregate_valid, has_callback, run_id, e_pc, crew, verdict,
           final_verdict, revision_inputs, report_inputs, stage_times, run_dirs, saved_files,
           report_file, exit_code, error, trace>>

ArgsSet == [auto_revise : BOOLEAN, revise_no : BOOLEAN, dry_run : BOOLEAN]

\* str(e) of an executor exception; an exception can carry no message
ErrorMessages == {"executor error", ""}

NoCrew == [stage |-> "none", order |-> <<>>, done |-> 0, idx |-> 0,
           running |-> FALSE, raw |-> <<>>, cb |-> FALSE, events |-> <<>>]

\* crew.py 41-51 and 979-986: a crew over task_order with its tracker;
\* cb: the tracker has an external_callback
NewCrew(stage, order, cb) ==
    [stage |-> stage, order |-> order, done |-> 0, idx |-> 0,
     running |-> FALSE, raw |-> <<>>, cb |-> cb, events |-> <<>>]

NoReport == [exists |-> FALSE, header_verdict |-> "", body_mentions |-> ""]

\* The state of the engine's locals when run_gap_foundry_engine is entered
\* (pc = "pregate"), or when no engine runs (pc = "idle")
EngineAt(pc, a, valid, cb, rid) ==
    /\ args = a
    /\ pregate_valid = valid
    /\ has_callback = cb
    /\ run_id = rid
    /\ e_pc = pc
    /\ crew = NoCrew
    /\ verdict = ""
    /\ final_verdict = ""
    /\ revision_inputs = Inputs
    /\ report_inputs = Inputs
    /\ stage_times = {}
    /\ run_dirs = {}
    /\ saved_files = 0
    /\ report_file = NoReport
    /\ exit_code = -1
    /\ error = ""
    /\ trace = <<>>

\* main.py 1218-1228: without flags auto_revise, revise_no, dry_run are False
DefaultArgs == [auto_revise |-> FALSE, revise_no |-> FALSE, dry_run |-> FALSE]

EngineIdle == EngineAt("idle", DefaultArgs, TRUE, FALSE, "none")

\* main.py 1284: main() calls run_gap_foundry_engine(inputs, args)
EngineInit ==
    \E a \in ArgsSet, valid \in BOOLEAN : EngineAt("pregate", a, valid, FALSE, "cli")

\* main.py 1307-1334: the precheck rejects the input
EnginePregateRejected ==
    /\ e_pc = "pregate"
    /\ ~pregate_valid
    /\ report_file' = [exists |-> TRUE, header_verdict |-> "pregate_fail",
                       body_mentions |-> ""]
    /\ exit_code' = 3
    /\ e_pc' = "returned"
    /\ UNCHANGED <<args, pregate_valid, has_callback, run_id, crew, verdict,
                   final_verdict, revision_inputs, report_inputs, stage_times, run_dirs, saved_files, error, trace>>
    /\ UNCHANGED svars

\* main.py 1344-1355: dry run; build() succeeds (0) or raises (1)
EngineDryRun ==
    /\ e_pc = "pregate"
    /\ pregate_valid
    /\ args.dry_run
    /\ exit_code' \in {0, 1}
    /\ e_pc' = "returned"
    /\ UNCHANGED <<args, pregate_valid, has_callback, run_id, crew, verdict,
                   final_verdict, revision_inputs, report_inputs, stage_times, run_dirs, saved_files,
                   report_file, error, trace>>
    /\ UNCHANGED svars

\* main.py 1372-1375 and 1430-1431: the discovery crew is built and kicked off.
\* Only the auto-revise branch hands the progress callback to the tracker.
EngineStartPass1 ==
    /\ e_pc = "pregate"
    /\ pregate_valid
    /\ ~args.dry_run
    /\ crew' = NewCrew("pass1", Pass1Order, args.auto_revise /\ has_callback)
    /\ trace' = Append(trace, <<"kickoff", "pass1", "">>)
    /\ e_pc' = "pass1"
    /\ UNCHANGED <<args, pregate_valid, has_callback, run_id, verdict,
                   final_verdict, revision_inputs, report_inputs, stage_times, run_dirs, saved_files,
                   report_file, exit_code, error>>
    /\ UNCHANGED svars

RunningStages == {"pass1", "revision", "report"}

\* mutant of KickoffReturned: kickoff returns after the first task
KickoffReturnedEarly(c) == c.done >= 1 /\ ~c.running

\* Process.sequential: kickoff returns when every task of the list completed
KickoffReturned(c) == c.done = Len(c.order) /\ ~c.running

\* The sequential crew hands the next task of its list to the executor
TaskStart ==
    /\ e_pc \in RunningStages
    /\ ~crew.running
    /\ ~KickoffReturned(crew)
    /\ crew' = [crew EXCEPT !.running = TRUE]
    /\ trace' = Append(trace, <<"start", crew.stage, crew.order[crew.done + 1]>>)
    /\ UNCHANGED <<args, pregate_valid, has_callback, run_id, e_pc, verdict,
                   final_verdict, revision_inputs, report_inputs, stage_times, run_dirs, saved_files,
                   report_file, exit_code, error>>
    /\ UNCHANGED svars

\* crew.py 110-119 and 138-147: what on_task_start / on_task_end emit for a
\* task: the tracker's current_task_idx and the percent handed to the
\* external callback (-1 without one)
TrackerEvent(kind, c, task, idx) ==
    [kind |-> kind, task |-> task, idx |-> idx,
     percent |-> IF c.cb THEN ProgressPercent(c.stage, idx, Len(c.order)) ELSE -1]

\* crew.py 385-413 with 121-147 and 108-119: the task callback of the tracker:
\* on_task_end of the task at current_task_idx, then on_task_start of the next
TaskCallback(st, c) ==
    IF c.idx < Len(c.order)
    THEN LET idx1 == c.idx + 1
             pct == ProgressPercent(c.stage, idx1, Len(c.order))
             st1 == IF c.cb
                    THEN ProgressCallback(st, run_id, c.order[c.idx + 1], "completed", pct)
                    ELSE st
             st2 == IF c.cb /\ idx1 < Len(c.order)
                    THEN ProgressCallback(st1, run_id, c.order[idx1 + 1], "started", pct)
                    ELSE st1
             ev1 == Append(c.events,
                           TrackerEvent("completed", c, c.order[c.idx + 1], idx1))
             ev2 == IF idx1 < Len(c.order)
                    THEN Append(ev1, TrackerEvent("started", c, c.order[idx1 + 1], idx1))
                    ELSE ev1
         IN [idx |-> idx1, store |-> st2, events |-> ev2]
    ELSE [idx |-> c.idx, store |-> st, events |-> c.events]

\* The executor returns the task's output; the crew calls task_callback
TaskEnd ==
    /\ e_pc \in RunningStages
    /\ crew.running
    /\ LET task == crew.order[crew.done + 1]
           cbres == TaskCallback(Store, crew)
       IN /\ \E out \in Texts :
                /\ (task \notin RedTeamTasks) => out = <<>>
                /\ crew' = [crew EXCEPT !.running = FALSE,
                                        !.done = @ + 1,
                                        !.idx = cbres.idx,
                                        !.events = cbres.events,
                                        !.raw = IF task \in RedTeamTasks THEN out ELSE @]
          /\ trace' = Append(trace, <<"end", crew.stage, task>>)
          /\ SetStore(cbres.store)
    /\ UNCHANGED <<args, pregate_valid, has_callback, run_id, e_pc, verdict,
                   final_verdict, revision_inputs, report_inputs, stage_times, run_dirs, saved_files,
                   report_file, exit_code, error>>

\* The executor raises: kickoff raises, no handler in run_gap_foundry_engine
TaskRaise ==
    /\ e_pc \in RunningStages
    /\ crew.running
    /\ error' \in ErrorMessages
    /\ crew' = [crew EXCEPT !.running = FALSE]
    /\ trace' = Append(trace, <<"raise", crew.stage, crew.order[crew.done + 1]>>)
    /\ e_pc' = "raised"
    /\ UNCHANGED <<args, pregate_valid, has_callback, run_id, verdict,
                   final_verdict, revision_inputs, report_inputs, stage_times, run_dirs, saved_files,
                   report_file, exit_code>>
    /\ UNCHANGED svars

\* main.py 1379, 1435: the discovery directory is {run_id}_pass1 under
\* auto-revise and {run_id}_stage1 otherwise
DiscoveryDir(a) == IF a.auto_revise THEN "_pass1" ELSE "_stage1"

\* main.py 1376-1380, 1432-1436 with 878-879: the stage time is recorded and
\* _save_task_outputs creates the discovery directory
SavePass1Begin ==
    /\ e_pc = "pass1"
    /\ KickoffReturned(crew)
    /\ stage_times' = stage_times \cup
          {IF args.auto_revise THEN "Pass 1 (Research + Gate)"
                               ELSE "Stage 1 (Research + Gate)"}
    /\ run_dirs' = run_dirs \cup {DiscoveryDir(args)}
    /\ saved_files' = 0
    /\ e_pc' = "pass1_saving"
    /\ UNCHANGED <<args, pregate_valid, has_callback, run_id, crew, verdict,
                   final_verdict, revision_inputs, report_inputs, report_file, exit_code, error, trace>>
    /\ UNCHANGED svars

\* main.py 883-904: _save_task_outputs writes the file of the next task
SavePass1File ==
    /\ e_pc = "pass1_saving"
    /\ saved_files < Len(crew.order)
    /\ saved_files' = saved_files + 1
    /\ UNCHANGED <<args, pregate_valid, has_callback, run_id, e_pc, crew, verdict,
                   final_verdict, revision_inputs, report_inputs, stage_times, run_dirs,
                   report_file, exit_code, error, trace>>
    /\ UNCHANGED svars

\* main.py 914-918: the index file is written and _save_task_outputs returns
SavePass1End ==
    /\ e_pc = "pass1_saving"
    /\ saved_files = Len(crew.order)
    /\ e_pc' = "pass1_saved"
    /\ UNCHANGED <<args, pregate_valid, has_callback, run_id, crew, verdict,
                   final_verdict, revision_inputs, report_inputs, stage_times, run_dirs, saved_files,
                   report_file, exit_code, error, trace>>
    /\ UNCHANGED svars

\* mutant of DoRevision: an unknown verdict is revised like HOLD
DoRevisionUnknownToo(a, v) ==
    a.auto_revise /\ (v \in {"LANDING_HOLD", "UNKNOWN"} \/ (v = "LANDING_NO" /\ a.revise_no))

\* mutant of DoRevision: the verdict decides in the standard mode as well
DoRevisionIgnoresMode(a, v) ==
    v = "LANDING_HOLD" \/ (v = "LANDING_NO" /\ a.revise_no)

\* mutant of DoRevision: NO is revised whatever revise_no says
DoRevisionAlwaysNo(a, v) ==
    a.auto_revise /\ (v = "LANDING_HOLD" \/ v = "LANDING_NO")

\* main.py 1368 and 1388: the revision stage runs in the auto-revise branch
\* when do_revision holds
DoRevision(a, v) ==
    a.auto_revise /\ (v = "LANDING_HOLD" \/ (v = "LANDING_NO" /\ a.revise_no))

\* main.py 1383-1396 / 1408-1418 / 1438-1450: the verdict is extracted from the
\* discovery crew; the revision crew or the report crew is built and kicked off
GateEvaluated ==
    /\ e_pc = "pass1_saved"
    /\ \E outputs \in LoadPass1OutputsForRevision(
                        ReadableFiles(fs_state, Range(crew.order)), file_names) :
        LET v == ExtractVerdictFromCrew(crew.raw) IN
        /\ verdict' = v
        /\ final_verdict' = v
        /\ IF DoRevision(args, v)
           THEN /\ revision_inputs' = Merge(Inputs, outputs)
                /\ crew' = NewCrew("revision", RevisionOrder, has_callback)
                /\ trace' = Append(trace, <<"kickoff", "revision", "">>)
                /\ e_pc' = "revision"
                /\ UNCHANGED report_inputs
           ELSE /\ crew' = NewCrew("final_report", ReportOrder, FALSE)
                /\ trace' = Append(trace, <<"kickoff", "final_report", "">>)
                /\ report_inputs' =
                      IF args.auto_revise
                      THEN Merge([Inputs EXCEPT !.landing_gate_verdict = v], outputs)
                      ELSE StandardReportInputs(v, outputs)
                /\ e_pc' = "report"
                /\ UNCHANGED revision_inputs
    /\ UNCHANGED <<args, pregate_valid, has_callback, run_id, stage_times,
                   run_dirs, saved_files, report_file, exit_code, error>>
    /\ UNCHANGED svars

\* main.py 1397-1402: timing and _save_task_outputs of the revision stage
SaveRevision ==
    /\ e_pc = "revision"
    /\ KickoffReturned(crew)
    /\ stage_times' = stage_times \cup {"Pass 2 (Revision)"}
    /\ run_dirs' = run_dirs \cup {"_pass2"}
    /\ e_pc' = "revision_saved"
    /\ UNCHANGED <<args, pregate_valid, has_callback, run_id, crew, verdict,
                   final_verdict, revision_inputs, report_inputs, saved_files, report_file, exit_code, error, trace>>
    /\ UNCHANGED svars

\* main.py 1405: final_verdict = verdict_v2 if verdict_v2 else verdict
FinalVerdict(verdict_v2, v) ==
    IF Truthy(verdict_v2) THEN verdict_v2 ELSE v

\* main.py 1404-1418: the verdict is extracted again from the recheck task and
\* the report crew is built and kicked off
RecheckEvaluated ==
    /\ e_pc = "revision_saved"
    /\ \E outputs \in LoadPass1OutputsForRevision(
                        ReadableFiles(fs_state, Range(crew.order)), file_names) :
        LET verdict_v2 == ExtractVerdictFromCrew(crew.raw)
            fv == FinalVerdict(verdict_v2, verdict)
        IN /\ final_verdict' = fv
           /\ report_inputs' = Merge([Inputs EXCEPT !.landing_gate_verdict = fv], outputs)
    /\ crew' = NewCrew("final_report", ReportOrder, FALSE)
    /\ trace' = Append(trace, <<"kickoff", "final_report", "">>)
    /\ e_pc' = "report"
    /\ UNCHANGED <<args, pregate_valid, has_callback, run_id, verdict, revision_inputs,
                   stage_times, run_dirs, saved_files, report_file, exit_code, error>>
    /\ UNCHANGED svars

\* main.py 1419-1424 and 1451-1452: the report stage's outputs are saved; only
\* the auto-revise branch records the stage's time
SaveReport ==
    /\ e_pc = "report"
    /\ KickoffReturned(crew)
    /\ stage_times' = IF args.auto_revise
                      THEN stage_times \cup {"Stage B (Report)"}
                      ELSE stage_times
    /\ run_dirs' = run_dirs \cup {IF args.auto_revise THEN "_final" ELSE ""}
    /\ e_pc' = "report_saved"
    /\ UNCHANGED <<args, pregate_valid, has_callback, run_id, crew, verdict,
                   final_verdict, revision_inputs, report_inputs, saved_files, report_file, exit_code, error, trace>>
    /\ UNCHANGED svars

\* What the report task's text can mention besides the header's verdict
BodyMentions == {"", "LANDING_GO", "LANDING_HOLD", "LANDING_NO"}

\* main.py 1454-1506: header + report text + footer are written; return 0
EngineFinish ==
    /\ e_pc = "report_saved"
    /\ \E m \in BodyMentions :
         report_file' = [exists |-> TRUE, header_verdict |-> final_verdict,
                         body_mentions |-> m]
    /\ exit_code' = 0
    /\ e_pc' = "returned"
    /\ UNCHANGED <<args, pregate_valid, has_callback, run_id, crew, verdict,
                   final_verdict, revision_inputs, report_inputs, stage_times, run_dirs, saved_files, error, trace>>
    /\ UNCHANGED svars

\* ======================================================================
\* Part 4: the API server (api.py): startup, validate_idea, the worker
\* run_validation_job and its monitor thread
\* ======================================================================

\* Worker runs the model follows, and restarts of the server process
MaxWorkerRuns == 1
MaxRestarts == 1

\* Iterations of the monitor's polling loop the model follows in one run
MaxMonitorLoops == 2

\* Run ids validate_idea can generate (api.py 308: timestamp + uuid, unique)
RunIds == {"r1", "r2"}

VARIABLES
    srv_pc,         \* "starting": before the startup event; "up": serving
    used_ids,       \* run ids generated so far
    queue,          \* background tasks added and not yet started
    w_pc,           \* position of the worker run_validation_job
    cur,            \* run_id of the worker
    m_pc,           \* position of monitor_progress
    last_progress,  \* monitor_progress.last_progress
    m_cur,          \* monitor_progress: current_progress, current_step
    m_loops,        \* iterations of the monitor's loop so far
    worker_runs,    \* worker runs started
    restarts        \* restarts of the server process

avars == <<srv_pc, used_ids, queue, w_pc, cur, m_pc, last_progress, m_cur, m_loops,
           worker_runs, restarts>>


\* api.py 194: the error message of a record interrupted by a restart
RestartMessage == "restart interrupted"

\* mutant of Reconciled: pregate_failed is not taken as terminal
ReconciledMissesPregateFailed(rec) ==
    IF rec.status \notin {"completed", "failed"}
    THEN [rec EXCEPT !.status = "failed", !.error_message = RestartMessage]
    ELSE rec

\* api.py 187-194: what _load_jobs makes of one persisted record
Reconciled(rec) ==
    IF rec.status \notin TerminalStatuses
    THEN [rec EXCEPT !.status = "failed", !.error_message = RestartMessage]
    ELSE rec

\* api.py 179-197: jobs after _load_jobs; jobs.update(loaded) keeps the
\* records that are in memory only
LoadJobs(js, file) ==
    IF file.exists
    THEN [r \in DOMAIN js \cup DOMAIN file.data |->
            IF r \in DOMAIN file.data THEN Reconciled(file.data[r]) ELSE js[r]]
    ELSE js

NoScan == [progress |-> 0, step |-> <<"", "">>]

StoreEmpty ==
    /\ jobs = <<>>
    /\ job_logs = <<>>
    /\ jobs_file = [exists |-> FALSE, data |-> <<>>]

\* The server process before its startup event, nothing persisted yet
ApiAt(pc) ==
    /\ srv_pc = pc
    /\ used_ids = {}
    /\ queue = {}
    /\ w_pc = "idle"
    /\ cur = "none"
    /\ m_pc = "off"
    /\ last_progress = 0
    /\ m_cur = NoScan
    /\ m_loops = 0
    /\ worker_runs = 0
    /\ restarts = 0

\* The engine's locals set as on entry of run_gap_foundry_engine / as idle
EngineSet(pc, a, valid, cb, rid) ==
    /\ args' = a
    /\ pregate_valid' = valid
    /\ has_callback' = cb
    /\ run_id' = rid
    /\ e_pc' = pc
    /\ crew' = NoCrew
    /\ verdict' = ""
    /\ final_verdict' = ""
    /\ revision_inputs' = Inputs
    /\ report_inputs' = Inputs
    /\ stage_times' = {}
    /\ run_dirs' = {}
    /\ saved_files' = 0
    /\ report_file' = NoReport
    /\ exit_code' = -1
    /\ error' = ""
    /\ trace' = <<>>

\* api.py 200-202: the startup event runs _load_jobs
Startup ==
    /\ srv_pc = "starting"
    /\ jobs' = LoadJobs(jobs, jobs_file)
    /\ srv_pc' = "up"
    /\ UNCHANGED <<job_logs, jobs_file>>
    /\ UNCHANGED <<used_ids, queue, w_pc, cur, m_pc, last_progress, m_cur, m_loops,
                   worker_runs, restarts>>
    /\ UNCHANGED evars

\* api.py 293-333: validate_idea creates the record and queues the worker;
\* it does not call _save_jobs
ValidateIdea ==
    /\ srv_pc = "up"
    /\ \E r \in RunIds \ used_ids :
        /\ jobs' = [x \in DOMAIN jobs \cup {r} |-> IF x = r THEN NewJob ELSE jobs[x]]
        /\ job_logs' = [x \in DOMAIN job_logs \cup {r} |->
                            IF x = r THEN <<>> ELSE job_logs[x]]
        /\ used_ids' = used_ids \cup {r}
        /\ queue' = queue \cup {r}
    /\ UNCHANGED jobs_file
    /\ UNCHANGED <<srv_pc, w_pc, cur, m_pc, last_progress, m_cur, worker_runs, restarts, m_loops>>
    /\ UNCHANGED evars

\* api.py 636-640: the worker starts: PREGATE_CHECKING, 5; the precheck's
\* result is a function of the request's inputs
WorkerBegin ==
    /\ srv_pc = "up"
    /\ w_pc = "idle"
    /\ worker_runs < MaxWorkerRuns
    /\ \E r \in queue :
        /\ queue' = queue \ {r}
        /\ cur' = r
        /\ SetStore(UpdateJobStatus(Store, r, "pregate_checking", 5,
                                    <<"msg", "pregate checking">>, None, None, None))
    /\ pregate_valid' \in BOOLEAN
    /\ w_pc' = "pregate"
    /\ worker_runs' = worker_runs + 1
    /\ UNCHANGED <<srv_pc, used_ids, m_pc, last_progress, m_cur, restarts, m_loops>>
    /\ UNCHANGED <<args, has_callback, run_id, e_pc, crew, verdict, final_verdict,
                   revision_inputs, report_inputs, stage_times, run_dirs, saved_files, report_file,
                   exit_code, error, trace>>

\* api.py 649: "; ".join(pregate_result.fail_reasons)
PregateReasons == "pregate fail reasons"

\* api.py 642-651: the precheck rejects: PREGATE_FAILED, 100, LANDING_NO
WorkerPregateFailed ==
    /\ w_pc = "pregate"
    /\ ~pregate_valid
    /\ SetStore(UpdateJobStatus(Store, cur, "pregate_failed", 100,
                                <<"msg", "input too vague">>, "LANDING_NO",
                                PregateReasons, None))
    /\ w_pc' = "done"
    /\ UNCHANGED <<srv_pc, used_ids, queue, cur, m_pc, last_progress, m_cur,
                   worker_runs, restarts, m_loops>>
    /\ UNCHANGED evars

\* api.py 661-669: WebArgs
WebArgs == [auto_revise |-> TRUE, revise_no |-> FALSE, dry_run |-> FALSE]

\* api.py 654-689: RESEARCHING, 5; the monitor thread is started
\* (last_progress = 0, api.py 574); the engine is called with WebArgs, the
\* run id and progress_callback
WorkerStartEngine ==
    /\ w_pc = "pregate"
    /\ pregate_valid
    /\ SetStore(UpdateJobStatus(Store, cur, "researching", 5,
                                <<"msg", "preparing research">>, None, None, None))
    /\ m_pc' = "check"
    /\ last_progress' = 0
    /\ m_cur' = NoScan
    /\ m_loops' = 0
    /\ EngineSet("pregate", WebArgs, TRUE, TRUE, cur)
    /\ w_pc' = "engine"
    /\ UNCHANGED <<srv_pc, used_ids, queue, cur, worker_runs, restarts>>

\* api.py 701: re.search(r"(LANDING_GO|LANDING_HOLD|LANDING_NO)", content):
\* the report is its header (which names final_verdict, main.py 799) followed
\* by the report task's text
LandingWords == {"LANDING_GO", "LANDING_HOLD", "LANDING_NO"}

\* api.py 693-703: the verdict of the job, read back from the report file
JobVerdictFromReport(rf) ==
    IF ~rf.exists THEN "UNKNOWN"
    ELSE IF rf.header_verdict \in LandingWords THEN rf.header_verdict
    ELSE IF rf.body_mentions \in LandingWords THEN rf.body_mentions
    ELSE "UNKNOWN"

\* api.py 695: the path of the report found for the run
ReportPath(rf) == IF rf.exists THEN "report.md" ELSE None

\* api.py 689-732: the engine returned exit_code
WorkerEngineReturned ==
    /\ w_pc = "engine"
    /\ e_pc = "returned"
    /\ LET st == CASE exit_code = 0 ->
                        UpdateJobStatus(Store, cur, "completed", 100,
                                        <<"msg", "validation complete">>,
                                        JobVerdictFromReport(report_file), None,
                                        ReportPath(report_file))
                   [] exit_code = 3 ->
                        UpdateJobStatus(Store, cur, "pregate_failed", 100,
                                        <<"msg", "input needs detail">>,
                                        "LANDING_NO", None, None)
                   [] OTHER ->
                        UpdateJobStatus(Store, cur, "failed", 100,
                                        <<"msg", "execution error">>, None,
                                        "Engine returned exit code", None)
       IN SetStore(st)
    /\ w_pc' = "done"
    /\ UNCHANGED <<srv_pc, used_ids, queue, cur, m_pc, last_progress, m_cur,
                   worker_runs, restarts, m_loops>>
    /\ UNCHANGED evars

\* api.py 734-743: the engine raised: FAILED, 100, error_message=str(e)
WorkerEngineRaised ==
    /\ w_pc = "engine"
    /\ e_pc = "raised"
    /\ SetStore(UpdateJobStatus(Store, cur, "failed", 100,
                                <<"msg", "system error">>, None, error, None))
    /\ w_pc' = "done"
    /\ UNCHANGED <<srv_pc, used_ids, queue, cur, m_pc, last_progress, m_cur,
                   worker_runs, restarts, m_loops>>
    /\ UNCHANGED evars

\* api.py 579: the loop condition of monitor_progress: the loop is left when
\* the record is gone or terminal, the body is entered otherwise
MonitorCheck ==
    /\ m_pc = "check"
    /\ IF cur \in DOMAIN jobs /\ jobs[cur].status \notin TerminalStatuses
       THEN /\ m_loops < MaxMonitorLoops
            /\ m_loops' = m_loops + 1
            /\ m_pc' = "scan"
       ELSE /\ m_pc' = "exited"
            /\ UNCHANGED m_loops
    /\ UNCHANGED <<srv_pc, used_ids, queue, w_pc, cur, last_progress, m_cur,
                   worker_runs, restarts>>
    /\ UNCHANGED evars
    /\ UNCHANGED svars

\* api.py 581-583: the first of the run's directories that exists
MonitoredDir(dirs) ==
    IF "_pass1" \in dirs THEN "_pass1"
    ELSE IF "_stage1" \in dirs THEN "_stage1"
    ELSE IF "" \in dirs THEN ""
    ELSE "none"

\* api.py 511-572: stage_details[prefix]["complete"] of the n-th file prefix
StageComplete(n) ==
    CASE n = 1 -> 15 [] n = 2 -> 22 [] n = 3 -> 32 [] n = 4 -> 42
      [] n = 5 -> 50 [] n = 6 -> 60 [] n = 7 -> 68 [] n = 8 -> 76
      [] n = 9 -> 84 [] n = 10 -> 88 [] n = 11 -> 92 [] OTHER -> 98

\* main.py 617-630 and 695-702: the prefix numbers of the md files of a
\* directory: the discovery directory holds 01_ .. 0k_, the directory of the
\* standard mode's report stage holds 12_
FilePrefixes(dir, k) == IF dir = "" THEN {12} ELSE 1..k

Max(S, least) == IF S = {} THEN least ELSE CHOOSE x \in S : \A y \in S : y <= x

\* api.py 588-617: current_progress of one scan of a directory
ScanProgress(dir, k) ==
    LET prefixes == FilePrefixes(dir, k)
        by_file == Max({StageComplete(n) : n \in prefixes} \cup {15}, 15)
        file_count == Cardinality(prefixes)
        file_based == 15 + (file_count * 7)
    IN IF file_count > 0 /\ file_based > by_file
       THEN (IF file_based < 95 THEN file_based ELSE 95)
       ELSE by_file

\* api.py 589-597: current_step of one scan: the stage whose file raised
\* current_progress last, or the research-start text
ScanStep(dir, k) ==
    LET prefixes == {n \in FilePrefixes(dir, k) : StageComplete(n) > 15}
    IN IF prefixes = {} THEN <<"monitor", "research start">>
       ELSE <<"monitor", "stage done">>

\* api.py 581-617: one scan of the run's directory
MonitorScan ==
    /\ m_pc = "scan"
    /\ LET dir == MonitoredDir(run_dirs)
           k == IF dir = "" THEN 1 ELSE saved_files
       IN IF dir = "none"
          THEN /\ m_pc' = "check"
               /\ UNCHANGED m_cur
          ELSE /\ m_cur' = [progress |-> ScanProgress(dir, k), step |-> ScanStep(dir, k)]
               /\ m_pc' = "update"
    /\ UNCHANGED <<srv_pc, used_ids, queue, w_pc, cur, last_progress,
                   worker_runs, restarts, m_loops>>
    /\ UNCHANGED evars
    /\ UNCHANGED svars

\* api.py 619-634: the record is updated when the scan's percent is above
\* last_progress; then the thread sleeps
MonitorUpdate ==
    /\ m_pc = "update"
    /\ IF m_cur.progress > last_progress
       THEN /\ last_progress' = m_cur.progress
            /\ SetStore(UpdateJobStatus(Store, cur, StatusForProgress(m_cur.progress),
                                        m_cur.progress, m_cur.step, None, None, None))
       ELSE /\ UNCHANGED last_progress
            /\ UNCHANGED svars
    /\ m_pc' = "check"
    /\ UNCHANGED <<srv_pc, used_ids, queue, w_pc, cur, m_cur, worker_runs, restarts, m_loops>>
    /\ UNCHANGED evars

\* The server process is stopped and started again: memory is lost, worker and
\* monitor threads die, outputs/jobs.json stays
Restart ==
    /\ srv_pc = "up"
    /\ restarts < MaxRestarts
    /\ restarts' = restarts + 1
    /\ srv_pc' = "starting"
    /\ jobs' = <<>>
    /\ job_logs' = <<>>
    /\ queue' = {}
    /\ w_pc' = "idle"
    /\ cur' = "none"
    /\ m_pc' = "off"
    /\ last_progress' = 0
    /\ m_cur' = NoScan
    /\ m_loops' = 0
    /\ EngineSet("idle", DefaultArgs, TRUE, FALSE, "none")
    /\ UNCHANGED <<jobs_file, used_ids, worker_runs>>

\* ======================================================================
\* Part 5: _update_job_status statement by statement (api.py 205-239, 163-176),
\* called from several threads at once: run_validation_job runs in the
\* server's thread pool, its progress callback runs in the same thread and
\* monitor_progress in a thread of its own; no lock is taken anywhere.
\* The copy loop of _save_jobs and the write of the file are each taken as
\* one step.
\* ======================================================================

\* Calls of _update_job_status each calling thread makes
MaxCalls == 2

\* The threads that call _update_job_status
Callers == {"worker", "monitor"}

\* api.py 620-631 and 714-743: arguments the callers pass
CallArgs ==
    { [run_id |-> r, status |-> "researching", progress |-> 15,
       step |-> <<"monitor", "research start">>,
       verdict |-> None, error_message |-> None, report_path |-> None] :
         r \in RunIds }
    \cup
    { [run_id |-> r, status |-> "completed", progress |-> 100,
       step |-> <<"msg", "validation complete">>,
       verdict |-> "LANDING_GO", error_message |-> None,
       report_path |-> "report.md"] : r \in RunIds }

VARIABLES
    c_pc,           \* position of each caller in _update_job_status
    c_args,         \* the arguments of the caller's call
    c_snap,         \* serializable_jobs of the caller's _save_jobs
    c_calls,        \* calls made by each caller
    c_failed        \* "[ERROR] Failed to save jobs" lines printed by each caller

wvars == <<c_pc, c_args, c_snap, c_calls, c_failed>>

NoArgs ==
    [run_id |-> "none", status |-> "", progress |-> 0, step |-> <<"", "">>,
     verdict |-> None, error_message |-> None, report_path |-> None]

\* No thread is inside _update_job_status
CallersIdle ==
    /\ c_pc = [c \in Callers |-> "idle"]
    /\ c_args = [c \in Callers |-> NoArgs]
    /\ c_snap = [c \in Callers |-> <<>>]
    /\ c_calls = [c \in Callers |-> 0]
    /\ c_failed = [c \in Callers |-> 0]

\* api.py 307-325: two runs were accepted by validate_idea, which stores the
\* records in memory and saves nothing
StoreTwoQueued ==
    /\ jobs = [r \in RunIds |-> NewJob]
    /\ job_logs = [r \in RunIds |-> <<>>]
    /\ jobs_file = [exists |-> FALSE, data |-> <<>>]

\* api.py 205-216: the call; `if run_id not in jobs: return`
UpdateCall(c) ==
    /\ c_pc[c] = "idle"
    /\ c_calls[c] < MaxCalls
    /\ \E a \in CallArgs :
         /\ c_args' = [c_args EXCEPT ![c] = a]
         /\ c_pc' = [c_pc EXCEPT ![c] =
                        IF a.run_id \in DOMAIN jobs THEN "update" ELSE "idle"]
    /\ c_calls' = [c_calls EXCEPT ![c] = @ + 1]
    /\ UNCHANGED <<c_snap, c_failed, svars>>

\* mutant of UpdateRecord: the update is applied to every record of the store
UpdateRecordAllRuns(c) ==
    /\ c_pc[c] = "update"
    /\ jobs' = [r \in DOMAIN jobs |->
                  [jobs[r] EXCEPT !.status = c_args[c].status,
                                  !.progress = c_args[c].progress,
                                  !.current_step = c_args[c].step]]
    /\ c_pc' = [c_pc EXCEPT ![c] = "fields"]
    /\ UNCHANGED <<c_args, c_snap, c_calls, c_failed, job_logs, jobs_file>>

\* api.py 218-223: jobs[run_id].update({status, progress, current_step, ...})
UpdateRecord(c) ==
    /\ c_pc[c] = "update"
    /\ jobs' = [jobs EXCEPT ![c_args[c].run_id] =
                  [@ EXCEPT !.status = c_args[c].status,
                            !.progress = c_args[c].progress,
                            !.current_step = c_args[c].step]]
    /\ c_pc' = [c_pc EXCEPT ![c] = "fields"]
    /\ UNCHANGED <<c_args, c_snap, c_calls, c_failed, job_logs, jobs_file>>

\* api.py 225-230: verdict, error_message, report_path when truthy
UpdateFields(c) ==
    /\ c_pc[c] = "fields"
    /\ jobs' = [jobs EXCEPT ![c_args[c].run_id] =
                  [@ EXCEPT
                     !.verdict = IF Truthy(c_args[c].verdict)
                                 THEN c_args[c].verdict ELSE @,
                     !.error_message = IF Truthy(c_args[c].error_message)
                                       THEN c_args[c].error_message ELSE @,
                     !.report_path = IF Truthy(c_args[c].report_path)
                                     THEN c_args[c].report_path ELSE @]]
    /\ c_pc' = [c_pc EXCEPT ![c] = "log"]
    /\ UNCHANGED <<c_args, c_snap, c_calls, c_failed, job_logs, jobs_file>>

\* api.py 232-236: the log line is appended
UpdateLog(c) ==
    /\ c_pc[c] = "log"
    /\ job_logs' = [job_logs EXCEPT ![c_args[c].run_id] =
                      Append(@, LogMsg(c_args[c].status, c_args[c].progress,
                                       c_args[c].step))]
    /\ c_pc' = [c_pc EXCEPT ![c] = "save"]
    /\ UNCHANGED <<c_args, c_snap, c_calls, c_failed, jobs, jobs_file>>

\* api.py 167-170: _save_jobs copies every record into serializable_jobs
SaveSnapshot(c) ==
    /\ c_pc[c] = "save"
    /\ c_snap' = [c_snap EXCEPT ![c] = jobs]
    /\ c_pc' = [c_pc EXCEPT ![c] = "write"]
    /\ UNCHANGED <<c_args, c_calls, c_failed, svars>>

\* api.py 172-173: the file is opened for writing and serializable_jobs dumped
SaveWrite(c) ==
    /\ c_pc[c] = "write"
    /\ jobs_file' = SaveJobs(c_snap[c])
    /\ c_pc' = [c_pc EXCEPT ![c] = "idle"]
    /\ UNCHANGED <<c_args, c_snap, c_calls, c_failed, jobs, job_logs>>

\* What is left of the file when the dump fails after open(JOBS_FILE, "w")
\* truncated it: no complete document, _load_jobs recovers no record from it
\* (api.py 183-197)
Truncated == [exists |-> TRUE, data |-> <<>>]

\* mutant of SaveErrorHandled: the error leaves _save_jobs unprinted
SaveErrorPropagates(pc, printed) == [pc |-> "raised", printed |-> printed]

\* api.py 175-176: `except Exception as e: print(...)`: the line is printed
\* and _save_jobs, and with it _update_job_status, returns
SaveErrorHandled(pc, printed) == [pc |-> "idle", printed |-> printed + 1]

\* api.py 165-176: a statement of the try block raises (mkdir, the copy loop,
\* open, json.dump). The file is as it was when mkdir, the copy or open
\* raised, and truncated when the dump raised.
SaveFails(c) ==
    /\ c_pc[c] \in {"save", "write"}
    /\ jobs_file' \in IF c_pc[c] = "write" THEN {jobs_file, Truncated} ELSE {jobs_file}
    /\ LET after == SaveErrorHandled(c_pc[c], c_failed[c])
       IN /\ c_pc' = [c_pc EXCEPT ![c] = after.pc]
          /\ c_failed' = [c_failed EXCEPT ![c] = after.printed]
    /\ UNCHANGED <<c_args, c_snap, c_calls, jobs, job_logs>>

\* ======================================================================
\* Part 6: GET /jobs (api.py 471-489): list_jobs on a store of records
\* with their created_at
\* ======================================================================

\* Records in the store and distinct values of created_at
MaxJobs == 3
MaxTime == 3

\* api.py 472: limit is any int of the query string (default 20)
Limits == (0 - 1) .. (MaxJobs + 1)

\* api.py 311-321: jobs.items() in insertion order, each record with the
\* created_at validate_idea gave it (datetime.now(), local wall clock)
JobLists ==
    UNION { [1..n -> [run_id : 1..MaxJobs, created_at : 1..MaxTime]] : n \in 0..MaxJobs }

VARIABLES
    l_jobs,         \* jobs.items()
    l_limit,        \* the limit of the request
    l_result,       \* the list returned
    l_pc            \* "request": before list_jobs ran; "listed": after

lvars == <<l_jobs, l_limit, l_result, l_pc>>

\* No request for the list is being served
ListIdle ==
    /\ l_jobs = <<>>
    /\ l_limit = 0
    /\ l_result = <<>>
    /\ l_pc = "idle"

\* A request GET /jobs?limit=n on a store whose run ids are distinct
ListInit ==
    /\ l_jobs \in {s \in JobLists :
                      /\ \A i \in DOMAIN s : s[i].run_id = i}
    /\ l_limit \in Limits
    /\ l_result = <<>>
    /\ l_pc = "request"

\* s without its i-th element
RemoveAt(s, i) == [j \in 1..(Len(s) - 1) |-> IF j < i THEN s[j] ELSE s[j + 1]]

\* api.py 474-478: sorted(..., key=created_at, reverse=True): descending and
\* stable (records with equal keys keep their order)
RECURSIVE SortedJobs(_)
SortedJobs(s) ==
    IF s = <<>> THEN <<>>
    ELSE LET i == CHOOSE k \in DOMAIN s :
                    /\ \A j \in DOMAIN s : s[j].created_at <= s[k].created_at
                    /\ \A j \in DOMAIN s : s[j].created_at = s[k].created_at => k <= j
         IN <<s[i]>> \o SortedJobs(RemoveAt(s, i))

\* api.py 478: s[:limit]; a negative limit counts from the end
Slice(s, limit) ==
    LET n == IF limit >= 0
             THEN (IF limit < Len(s) THEN limit ELSE Len(s))
             ELSE (IF Len(s) + limit > 0 THEN Len(s) + limit ELSE 0)
    IN SubSeq(s, 1, n)

\* api.py 471-489: list_jobs
ListJobs ==
    /\ l_pc = "request"
    /\ l_result' = Slice(SortedJobs(l_jobs), l_limit)
    /\ l_pc' = "listed"
    /\ UNCHANGED <<l_jobs, l_limit>>

\* ======================================================================
\* Part 7: _extract_verdict_from_crew (main.py 957-1036) on a finished stage:
\* the crew's tasks with their outputs and the red-team files of the run
\* directory, extracted from more than once
\* ======================================================================

\* Extractions made from one finished stage
MaxExtractions == 2
\* Most tasks of the crew, most red-team files of the run directory
MaxCrewTasks == 2
MaxRedTeamFiles == 2

\* The texts a task output or a file holds here: no text, text without a
\* marker, and a marker of each format
StageTexts == {<<>>, <<"-">>, <<"VALIDATION_HOLD">>, <<"LANDING_GO">>, <<"FAIL">>}

\* main.py 975-992, 998: a task of the crew: whether one of the three tests
\* takes it for a red-team task, and its output attribute (None or raw text)
CrewTasks ==
    { [red_team |-> r, output |-> o] :
        r \in BOOLEAN, o \in {NoneOpt(<<>>)} \cup { Some(t) : t \in StageTexts } }

CrewTaskLists == UNION { [1..n -> CrewTasks] : n \in 0..MaxCrewTasks }

\* main.py 1010-1013: the *.md files of the run directory whose name holds
\* a red-team marker; name is the file's place in the order of the names
FileSlots ==
    {[present |-> FALSE, readable |-> FALSE, content |-> <<>>]}
    \cup [present : {TRUE}, readable : BOOLEAN, content : StageTexts]

RedTeamFileSets ==
    { { [name |-> n, readable |-> sl[n].readable, content |-> sl[n].content] :
          n \in {m \in 1..MaxRedTeamFiles : sl[m].present} } :
        sl \in [1..MaxRedTeamFiles -> FileSlots] }

VARIABLES
    x_tasks,        \* crew.tasks after the stage
    x_lookup,       \* out_dir and run_id were passed and the run directory exists
    x_files,        \* the red-team files of the run directory
    x_results,      \* what the extractions made so far returned
    x_pc            \* "finished" once a stage has finished, "idle" before

xvars == <<x_tasks, x_lookup, x_files, x_results, x_pc>>

ExtractIdle ==
    /\ x_tasks = <<>>
    /\ x_lookup = FALSE
    /\ x_files = {}
    /\ x_results = <<>>
    /\ x_pc = "idle"

ExtractInit ==
    /\ x_tasks \in CrewTaskLists
    /\ x_lookup \in BOOLEAN
    /\ x_files \in RedTeamFileSets
    /\ x_results = <<>>
    /\ x_pc = "finished"

\* main.py 973-992: red_team_tasks, in the order of crew.tasks
RECURSIVE RedTeamOf(_)
RedTeamOf(ts) ==
    IF ts = <<>> THEN <<>>
    ELSE (IF Head(ts).red_team THEN <<Head(ts)>> ELSE <<>>) \o RedTeamOf(Tail(ts))

\* mutant of SortedGlob: the files in any order the directory gives them
UnsortedGlob(files) ==
    { s \in [1..Cardinality(files) -> files] :
        \A i, j \in DOMAIN s : i # j => s[i] # s[j] }

\* main.py 1010: sorted(run_dir.glob("*.md")): the files in the order of
\* their names, whatever order the directory gives them in
SortedGlob(files) ==
    { s \in [1..Cardinality(files) -> files] :
        \A i, j \in DOMAIN s : i < j => s[i].name < s[j].name }

\* main.py 994-1003: method 1, the output of the last red-team task
Method1(ts) ==
    LET red == RedTeamOf(ts)
    IN IF red = <<>> THEN <<None, <<>>>>
       ELSE IF ~red[Len(red)].output.some THEN <<None, <<>>>>
       ELSE <<ParseVerdictFromText(red[Len(red)].output.val), red[Len(red)].output.val>>

\* main.py 1005-1024: method 2, the last red-team file of the run directory;
\* a file that cannot be read is passed over
Method2(lookup, order) ==
    IF ~lookup \/ order = <<>> THEN <<None, <<>>>>
    ELSE IF ~order[Len(order)].readable THEN <<None, <<>>>>
    ELSE <<ParseVerdictFromText(order[Len(order)].content), order[Len(order)].content>>

\* main.py 957-1036: (verdict, raw_output); a Crew has no result attribute,
\* method 3 finds nothing
ExtractVerdictFromCrewAt(ts, lookup, order) ==
    IF Truthy(Method1(ts)[1]) THEN Method1(ts)
    ELSE IF Truthy(Method2(lookup, order)[1]) THEN Method2(lookup, order)
    ELSE <<"UNKNOWN", <<>>>>

\* One call of _extract_verdict_from_crew: it assigns to locals only
ExtractCall ==
    /\ Len(x_results) < MaxExtractions
    /\ x_pc = "finished"
    /\ \E order \in SortedGlob(x_files) :
         x_results' = Append(x_results, ExtractVerdictFromCrewAt(x_tasks, x_lookup, order))
    /\ UNCHANGED <<x_tasks, x_lookup, x_files, x_pc>>

\* ======================================================================
\* Part 8: stream_progress (api.py 357-406): the generator of one subscriber
\* of a run, statement by statement, beside the worker thread that calls
\* _update_job_status (Part 5). The generator runs on the event loop, the
\* worker in the thread pool; job and logs are references to the objects
\* the worker mutates.
\* ======================================================================

\* The run the subscriber follows
StreamRun == "r1"

VARIABLES
    g_pc,           \* position of the generator
    g_last,         \* last_log_index
    g_i,            \* the loop variable i (0-based)
    g_n,            \* len(logs) when range(last_log_index, len(logs)) was built
    g_sent          \* the log and done events yielded so far; a log event is
                    \* written with the index of its message. The status
                    \* events yielded between them carry no log message.

gvars == <<g_pc, g_last, g_i, g_n, g_sent>>

StreamIdle ==
    /\ g_pc = "idle"
    /\ g_last = 0
    /\ g_i = 0
    /\ g_n = 0
    /\ g_sent = <<>>

\* api.py 307-325: validate_idea accepted the run: its record is queued and
\* its log list is empty
StoreOneQueued ==
    /\ jobs = [r \in {StreamRun} |-> NewJob]
    /\ job_logs = [r \in {StreamRun} |-> <<>>]
    /\ jobs_file = [exists |-> FALSE, data |-> <<>>]

\* api.py 364-368: the request passed `if run_id not in jobs` and the
\* generator starts with last_log_index = 0
StreamSubscribed ==
    /\ g_pc = "loop"
    /\ g_last = 0
    /\ g_i = 0
    /\ g_n = 0
    /\ g_sent = <<>>

\* api.py 675-685 and 714-743: the updates of a run in the order the worker
\* makes them: progress updates, then the terminal one as its last call
WorkerCallArgs(n) ==
    IF n < MaxCalls
    THEN [run_id |-> StreamRun, status |-> "researching", progress |-> 5 + n,
          step |-> <<"task", "completed">>,
          verdict |-> None, error_message |-> None, report_path |-> None]
    ELSE [run_id |-> StreamRun, status |-> "completed", progress |-> 100,
          step |-> <<"msg", "validation complete">>,
          verdict |-> "LANDING_GO", error_message |-> None,
          report_path |-> "report.md"]

\* api.py 205-216: the worker's next call of _update_job_status
WorkerCall ==
    /\ c_pc["worker"] = "idle"
    /\ c_calls["worker"] < MaxCalls
    /\ c_args' = [c_args EXCEPT !["worker"] = WorkerCallArgs(c_calls["worker"] + 1)]
    /\ c_pc' = [c_pc EXCEPT !["worker"] = "update"]
    /\ c_calls' = [c_calls EXCEPT !["worker"] = @ + 1]
    /\ UNCHANGED <<c_snap, c_failed, svars>>

\* api.py 370-377: top of `while True`; job and logs are bound, and
\* range(last_log_index, len(logs)) is built
GenLoop ==
    /\ g_pc = "loop"
    /\ IF StreamRun \notin DOMAIN jobs
       THEN /\ g_pc' = "closed"
            /\ UNCHANGED <<g_i, g_n>>
       ELSE /\ g_i' = g_last
            /\ g_n' = Len(job_logs[StreamRun])
            /\ g_pc' = "logs"
    /\ UNCHANGED <<g_last, g_sent>>

\* api.py 377-378: one log event is yielded
GenYieldLog ==
    /\ g_pc = "logs"
    /\ g_i < g_n
    /\ g_sent' = Append(g_sent, <<"log", g_i + 1, job_logs[StreamRun][g_i + 1]>>)
    /\ g_i' = g_i + 1
    /\ UNCHANGED <<g_pc, g_last, g_n>>

\* api.py 379: after the for loop, last_log_index = len(logs)
GenAfterLogs ==
    /\ g_pc = "logs"
    /\ g_i >= g_n
    /\ g_last' = Len(job_logs[StreamRun])
    /\ g_pc' = "status"
    /\ UNCHANGED <<g_i, g_n, g_sent>>

\* api.py 381-389: the status event is built from the record and yielded
GenYieldStatus ==
    /\ g_pc = "status"
    /\ g_pc' = "test"
    /\ UNCHANGED <<g_last, g_i, g_n, g_sent>>

\* api.py 391-396: on a terminal status the done event is yielded and the
\* generator ends; otherwise it sleeps and loops
GenTest ==
    /\ g_pc = "test"
    /\ IF jobs[StreamRun].status \in TerminalStatuses
       THEN /\ g_sent' = Append(g_sent, <<"done", 0, <<100, <<"", jobs[StreamRun].status>>>>>>)
            /\ g_pc' = "closed"
       ELSE /\ g_pc' = "loop"
            /\ UNCHANGED g_sent
    /\ UNCHANGED <<g_last, g_i, g_n>>

\* ======================================================================
\* Part 9: _parse_verdict_from_text (main.py 921-954) on texts that hold
\* several markers
\* ======================================================================

\* Most places (markers or other text) of a parsed text
MaxParseLen == 2

ParseTexts == UNION { [1..n -> Tokens] : n \in 0..MaxParseLen }

VARIABLES
    p_text,         \* the argument
    p_result,       \* the value returned
    p_pc            \* "call" before, "parsed" after the call

pvars == <<p_text, p_result, p_pc>>

ParseIdle == p_text = <<>> /\ p_result = None /\ p_pc = "idle"

ParseInit == p_text \in ParseTexts /\ p_result = None /\ p_pc = "call"

\* main.py 921-954: one call
ParseCall ==
    /\ p_pc = "call"
    /\ p_result' = ParseVerdictFromText(p_text)
    /\ p_pc' = "parsed"
    /\ UNCHANGED p_text

vars == <<tvars, svars, evars, avars, dvars, wvars, lvars, xvars, gvars, pvars>>

\* ======================================================================
\* The specifications
\* ======================================================================

\* No create_tasks call is in progress
TasksIdle ==
    /\ tasks_cfg = <<>>
    /\ allowed_task_ids = NoneOpt(<<>>)
    /\ remaining = {}
    /\ allowed_set = NoneOpt({})
    /\ tasks = <<>>
    /\ pending = {}
    /\ progress = FALSE
    /\ ct_pc = "idle"
    /\ ct_error = NoError
    /\ executed = <<>>
    /\ passes = 0

\* crew.py 704-783 and the builders: one call of create_tasks on a
\* configuration, then the crew built over the builder's task_order
TasksStart == TasksInit /\ EngineIdle /\ StoreEmpty /\ ApiAt("off") /\ DiskAsDeployed /\ CallersIdle /\ ListIdle /\ ExtractIdle /\ StreamIdle /\ ParseIdle

TasksNext ==
    \/ (CreateTasksEnter /\ UNCHANGED <<evars, svars, avars, dvars, wvars, lvars, xvars, gvars, pvars>>)
    \/ (PassBegin /\ UNCHANGED <<evars, svars, avars, dvars, wvars, lvars, xvars, gvars, pvars>>)
    \/ (CreateTasksReturn /\ UNCHANGED <<evars, svars, avars, dvars, wvars, lvars, xvars, gvars, pvars>>)
    \/ (ForBodyNotDict /\ UNCHANGED <<evars, svars, avars, dvars, wvars, lvars, xvars, gvars, pvars>>)
    \/ (ForBodyUnknownAgent /\ UNCHANGED <<evars, svars, avars, dvars, wvars, lvars, xvars, gvars, pvars>>)
    \/ (ForBodyCreate /\ UNCHANGED <<evars, svars, avars, dvars, wvars, lvars, xvars, gvars, pvars>>)
    \/ (ForBodySkip /\ UNCHANGED <<evars, svars, avars, dvars, wvars, lvars, xvars, gvars, pvars>>)
    \/ (PassEndProgress /\ UNCHANGED <<evars, svars, avars, dvars, wvars, lvars, xvars, gvars, pvars>>)
    \/ (PassEndBlocked /\ UNCHANGED <<evars, svars, avars, dvars, wvars, lvars, xvars, gvars, pvars>>)
    \/ (BuildCrewMissing /\ UNCHANGED <<evars, svars, avars, dvars, wvars, lvars, xvars, gvars, pvars>>)
    \/ (BuildCrew /\ UNCHANGED <<evars, svars, avars, dvars, wvars, lvars, xvars, gvars, pvars>>)
    \/ (ExecuteTask /\ UNCHANGED <<evars, svars, avars, dvars, wvars, lvars, xvars, gvars, pvars>>)

SpecTasks == TasksStart /\ [][TasksNext]_vars

\* create_tasks and the builder are straight-line code of one thread: the
\* next statement is taken
SpecTasksLive == SpecTasks /\ WF_vars(TasksNext)

\* main.py 1292-1506: one call of run_gap_foundry_engine from main()
EngineStart == TasksIdle /\ EngineInit /\ StoreEmpty /\ ApiAt("off") /\ DiskInit /\ CallersIdle /\ ListIdle /\ ExtractIdle /\ StreamIdle /\ ParseIdle

EngineNext ==
    \/ (EnginePregateRejected /\ UNCHANGED <<tvars, avars, dvars, wvars, lvars, xvars, gvars, pvars>>)
    \/ (EngineDryRun /\ UNCHANGED <<tvars, avars, dvars, wvars, lvars, xvars, gvars, pvars>>)
    \/ (EngineStartPass1 /\ UNCHANGED <<tvars, avars, dvars, wvars, lvars, xvars, gvars, pvars>>)
    \/ (TaskStart /\ UNCHANGED <<tvars, avars, dvars, wvars, lvars, xvars, gvars, pvars>>)
    \/ (TaskEnd /\ UNCHANGED <<tvars, avars, dvars, wvars, lvars, xvars, gvars, pvars>>)
    \/ (TaskRaise /\ UNCHANGED <<tvars, avars, dvars, wvars, lvars, xvars, gvars, pvars>>)
    \/ (SavePass1Begin /\ UNCHANGED <<tvars, avars, dvars, wvars, lvars, xvars, gvars, pvars>>)
    \/ (SavePass1File /\ UNCHANGED <<tvars, avars, dvars, wvars, lvars, xvars, gvars, pvars>>)
    \/ (SavePass1End /\ UNCHANGED <<tvars, avars, dvars, wvars, lvars, xvars, gvars, pvars>>)
    \/ (GateEvaluated /\ UNCHANGED <<tvars, avars, dvars, wvars, lvars, xvars, gvars, pvars>>)
    \/ (SaveRevision /\ UNCHANGED <<tvars, avars, dvars, wvars, lvars, xvars, gvars, pvars>>)
    \/ (RecheckEvaluated /\ UNCHANGED <<tvars, avars, dvars, wvars, lvars, xvars, gvars, pvars>>)
    \/ (SaveReport /\ UNCHANGED <<tvars, avars, dvars, wvars, lvars, xvars, gvars, pvars>>)
    \/ (EngineFinish /\ UNCHANGED <<tvars, avars, dvars, wvars, lvars, xvars, gvars, pvars>>)

SpecEngine == EngineStart /\ [][EngineNext]_vars

\* The engine is straight-line code in one thread: the step after a finished
\* step is taken
SpecEngineLive == SpecEngine /\ WF_vars(EngineNext)

\* api.py: the server process, its requests, the worker with the engine it
\* calls and the monitor thread. With WebArgs and the worker's own precheck the
\* engine's precheck rejection and dry run are not reachable from the worker.
ApiStart == TasksIdle /\ EngineIdle /\ StoreEmpty /\ ApiAt("starting") /\ DiskAsDeployed /\ CallersIdle /\ ListIdle /\ ExtractIdle /\ StreamIdle /\ ParseIdle

ApiNext ==
    \/ (Startup /\ UNCHANGED <<tvars, dvars, wvars, lvars, xvars, gvars, pvars>>)
    \/ (ValidateIdea /\ UNCHANGED <<tvars, dvars, wvars, lvars, xvars, gvars, pvars>>)
    \/ (WorkerBegin /\ UNCHANGED <<tvars, dvars, wvars, lvars, xvars, gvars, pvars>>)
    \/ (WorkerPregateFailed /\ UNCHANGED <<tvars, dvars, wvars, lvars, xvars, gvars, pvars>>)
    \/ (WorkerStartEngine /\ UNCHANGED <<tvars, dvars, wvars, lvars, xvars, gvars, pvars>>)
    \/ (WorkerEngineReturned /\ UNCHANGED <<tvars, dvars, wvars, lvars, xvars, gvars, pvars>>)
    \/ (WorkerEngineRaised /\ UNCHANGED <<tvars, dvars, wvars, lvars, xvars, gvars, pvars>>)
    \/ (MonitorCheck /\ UNCHANGED <<tvars, dvars, wvars, lvars, xvars, gvars, pvars>>)
    \/ (MonitorScan /\ UNCHANGED <<tvars, dvars, wvars, lvars, xvars, gvars, pvars>>)
    \/ (MonitorUpdate /\ UNCHANGED <<tvars, dvars, wvars, lvars, xvars, gvars, pvars>>)
    \/ (Restart /\ UNCHANGED <<tvars, dvars, wvars, lvars, xvars, gvars, pvars>>)
    \/ (EngineStartPass1 /\ UNCHANGED <<tvars, avars, dvars, wvars, lvars, xvars, gvars, pvars>>)
    \/ (TaskStart /\ UNCHANGED <<tvars, avars, dvars, wvars, lvars, xvars, gvars, pvars>>)
    \/ (TaskEnd /\ UNCHANGED <<tvars, avars, dvars, wvars, lvars, xvars, gvars, pvars>>)
    \/ (TaskRaise /\ UNCHANGED <<tvars, avars, dvars, wvars, lvars, xvars, gvars, pvars>>)
    \/ (SavePass1Begin /\ UNCHANGED <<tvars, avars, dvars, wvars, lvars, xvars, gvars, pvars>>)
    \/ (SavePass1File /\ UNCHANGED <<tvars, avars, dvars, wvars, lvars, xvars, gvars, pvars>>)
    \/ (SavePass1End /\ UNCHANGED <<tvars, avars, dvars, wvars, lvars, xvars, gvars, pvars>>)
    \/ (GateEvaluated /\ UNCHANGED <<tvars, avars, dvars, wvars, lvars, xvars, gvars, pvars>>)
    \/ (SaveRevision /\ UNCHANGED <<tvars, avars, dvars, wvars, lvars, xvars, gvars, pvars>>)
    \/ (RecheckEvaluated /\ UNCHANGED <<tvars, avars, dvars, wvars, lvars, xvars, gvars, pvars>>)
    \/ (SaveReport /\ UNCHANGED <<tvars, avars, dvars, wvars, lvars, xvars, gvars, pvars>>)
    \/ (EngineFinish /\ UNCHANGED <<tvars, avars, dvars, wvars, lvars, xvars, gvars, pvars>>)

SpecApi == ApiStart /\ [][ApiNext]_vars

\* api.py 205-239: the calls of _update_job_status by two threads, statement
\* by statement, on a store holding two accepted runs
StoreStart ==
    /\ TasksIdle /\ EngineIdle /\ DiskAsDeployed
    /\ StoreTwoQueued
    /\ srv_pc = "up" /\ used_ids = RunIds /\ queue = {}
    /\ w_pc = "idle" /\ cur = "none" /\ m_pc = "off" /\ last_progress = 0
    /\ m_cur = NoScan /\ m_loops = 0 /\ worker_runs = 0 /\ restarts = 0
    /\ CallersIdle /\ ListIdle /\ ExtractIdle /\ StreamIdle /\ ParseIdle

StoreNext ==
    \/ (\E c \in Callers : UpdateCall(c) /\ UNCHANGED <<tvars, evars, avars, dvars, lvars, xvars, gvars, pvars>>)
    \/ (\E c \in Callers : UpdateRecord(c) /\ UNCHANGED <<tvars, evars, avars, dvars, lvars, xvars, gvars, pvars>>)
    \/ (\E c \in Callers : UpdateFields(c) /\ UNCHANGED <<tvars, evars, avars, dvars, lvars, xvars, gvars, pvars>>)
    \/ (\E c \in Callers : UpdateLog(c) /\ UNCHANGED <<tvars, evars, avars, dvars, lvars, xvars, gvars, pvars>>)
    \/ (\E c \in Callers : SaveSnapshot(c) /\ UNCHANGED <<tvars, evars, avars, dvars, lvars, xvars, gvars, pvars>>)
    \/ (\E c \in Callers : SaveWrite(c) /\ UNCHANGED <<tvars, evars, avars, dvars, lvars, xvars, gvars, pvars>>)

SpecStore == StoreStart /\ [][StoreNext]_vars

\* The same threads on a store that holds any of the runs they name
FrameStart ==
    /\ TasksIdle /\ EngineIdle /\ DiskAsDeployed
    /\ \E D \in SUBSET RunIds :
         /\ jobs = [r \in D |-> NewJob]
         /\ job_logs = [r \in D |-> <<>>]
    /\ jobs_file = [exists |-> FALSE, data |-> <<>>]
    /\ srv_pc = "up" /\ used_ids = RunIds /\ queue = {}
    /\ w_pc = "idle" /\ cur = "none" /\ m_pc = "off" /\ last_progress = 0
    /\ m_cur = NoScan /\ m_loops = 0 /\ worker_runs = 0 /\ restarts = 0
    /\ CallersIdle /\ ListIdle /\ ExtractIdle /\ StreamIdle /\ ParseIdle

SpecFrame == FrameStart /\ [][StoreNext]_vars

\* The same threads when the persisting of the store can fail
StoreFaultyNext ==
    \/ (\E c \in Callers : UpdateCall(c) /\ UNCHANGED <<tvars, evars, avars, dvars, lvars, xvars, gvars, pvars>>)
    \/ (\E c \in Callers : UpdateRecord(c) /\ UNCHANGED <<tvars, evars, avars, dvars, lvars, xvars, gvars, pvars>>)
    \/ (\E c \in Callers : UpdateFields(c) /\ UNCHANGED <<tvars, evars, avars, dvars, lvars, xvars, gvars, pvars>>)
    \/ (\E c \in Callers : UpdateLog(c) /\ UNCHANGED <<tvars, evars, avars, dvars, lvars, xvars, gvars, pvars>>)
    \/ (\E c \in Callers : SaveSnapshot(c) /\ UNCHANGED <<tvars, evars, avars, dvars, lvars, xvars, gvars, pvars>>)
    \/ (\E c \in Callers : SaveWrite(c) /\ UNCHANGED <<tvars, evars, avars, dvars, lvars, xvars, gvars, pvars>>)
    \/ (\E c \in Callers : SaveFails(c) /\ UNCHANGED <<tvars, evars, avars, dvars, lvars, xvars, gvars, pvars>>)

SpecStoreFaulty == StoreStart /\ [][StoreFaultyNext]_vars

\* api.py 471-489: one request GET /jobs on a store of up to MaxJobs records
ListStart ==
    /\ TasksIdle /\ EngineIdle /\ DiskAsDeployed /\ StoreEmpty /\ ApiAt("up")
    /\ CallersIdle /\ ExtractIdle /\ StreamIdle /\ ParseIdle
    /\ ListInit

ListNext ==
    \/ (ListJobs /\ UNCHANGED <<tvars, svars, evars, avars, dvars, wvars, xvars, gvars, pvars>>)

SpecList == ListStart /\ [][ListNext]_vars

\* main.py 957-1036: extractions from one finished stage
ExtractStart ==
    /\ TasksIdle /\ EngineIdle /\ DiskAsDeployed /\ StoreEmpty /\ ApiAt("up")
    /\ CallersIdle /\ ListIdle /\ StreamIdle /\ ParseIdle
    /\ ExtractInit

ExtractNext ==
    \/ (ExtractCall /\ UNCHANGED <<tvars, svars, evars, avars, dvars, wvars, lvars, gvars, pvars>>)

SpecExtract == ExtractStart /\ [][ExtractNext]_vars

\* api.py 357-406 beside 205-239: one subscriber of a run and the worker
\* that updates it
StreamStart ==
    /\ TasksIdle /\ EngineIdle /\ DiskAsDeployed
    /\ StoreOneQueued
    /\ srv_pc = "up" /\ used_ids = {StreamRun} /\ queue = {}
    /\ w_pc = "idle" /\ cur = "none" /\ m_pc = "off" /\ last_progress = 0
    /\ m_cur = NoScan /\ m_loops = 0 /\ worker_runs = 0 /\ restarts = 0
    /\ CallersIdle /\ ListIdle /\ ExtractIdle
    /\ StreamSubscribed /\ ParseIdle

StreamNext ==
    \/ (WorkerCall /\ UNCHANGED <<tvars, evars, avars, dvars, lvars, xvars, gvars, pvars>>)
    \/ (UpdateRecord("worker") /\ UNCHANGED <<tvars, evars, avars, dvars, lvars, xvars, gvars, pvars>>)
    \/ (UpdateFields("worker") /\ UNCHANGED <<tvars, evars, avars, dvars, lvars, xvars, gvars, pvars>>)
    \/ (UpdateLog("worker") /\ UNCHANGED <<tvars, evars, avars, dvars, lvars, xvars, gvars, pvars>>)
    \/ (SaveSnapshot("worker") /\ UNCHANGED <<tvars, evars, avars, dvars, lvars, xvars, gvars, pvars>>)
    \/ (SaveWrite("worker") /\ UNCHANGED <<tvars, evars, avars, dvars, lvars, xvars, gvars, pvars>>)
    \/ (GenLoop /\ UNCHANGED <<tvars, svars, evars, avars, dvars, wvars, lvars, xvars, pvars>>)
    \/ (GenYieldLog /\ UNCHANGED <<tvars, svars, evars, avars, dvars, wvars, lvars, xvars, pvars>>)
    \/ (GenAfterLogs /\ UNCHANGED <<tvars, svars, evars, avars, dvars, wvars, lvars, xvars, pvars>>)
    \/ (GenYieldStatus /\ UNCHANGED <<tvars, svars, evars, avars, dvars, wvars, lvars, xvars, pvars>>)
    \/ (GenTest /\ UNCHANGED <<tvars, svars, evars, avars, dvars, wvars, lvars, xvars, pvars>>)

SpecStream == StreamStart /\ [][StreamNext]_vars

\* main.py 921-954: one call of _parse_verdict_from_text on a bounded text
ParseStart ==
    /\ TasksIdle /\ EngineIdle /\ DiskAsDeployed /\ StoreEmpty /\ ApiAt("up")
    /\ CallersIdle /\ ListIdle /\ ExtractIdle /\ StreamIdle
    /\ ParseInit

ParseNext ==
    \/ (ParseCall /\ UNCHANGED <<tvars, svars, evars, avars, dvars, wvars, lvars, xvars, gvars>>)

SpecParse == ParseStart /\ [][ParseNext]_vars
\* ---------------------------------------------------------------- claims
\* Whether id d is allow-listed in this call (no allow-list: every id is)
AllowListed(d) == ~allowed_task_ids.some \/ d \in Range(allowed_task_ids.val)

\* The participating tasks: the allow-listed ids that exist in the configuration
Participating == { t \in DOMAIN tasks_cfg : AllowListed(t) }

\* The allow-listed dependencies of t, read from the configuration
AllowedDeps(t) == { d \in tasks_cfg[t].context : AllowListed(d) }

\* A dependency cycle among the participating tasks: a non-empty set of them
\* each of which depends on a member of the set
HasCycle ==
    \E S \in SUBSET Participating :
        S # {} /\ \A t \in S : AllowedDeps(t) \cap S # {}

\* An allow-listed dependency that the configuration does not define
HasMissingDep ==
    \E t \in Participating : \E d \in AllowedDeps(t) : d \notin DOMAIN tasks_cfg

Index(ts, t) == CHOOSE i \in DOMAIN ts : ts[i].id = t

\* C1: create_tasks creates every task strictly after all of its allow-listed
\* dependencies (idx(dep) < idx(task) in the resulting dict), and on a
\* configuration without a cycle and without a missing dependency it never
\* raises the "circular dependency" error.
C1_CreatedAfterDependencies ==
    /\ \A i \in DOMAIN tasks :
         \A d \in AllowedDeps(tasks[i].id) :
            \E j \in DOMAIN tasks : j < i /\ tasks[j].id = d
    /\ (ct_pc = "raised" /\ ct_error.kind = "ValueError:blocked")
          => (HasCycle \/ HasMissingDep)

\* C1 witness: {A:[], B:[A], C:[A,B]} with all three allow-listed was resolved,
\* idx(A) < idx(B) < idx(C)
C1_Witness ==
    /\ ct_pc = "returned"
    /\ DOMAIN tasks_cfg = TaskIds
    /\ tasks_cfg["revise_positioning"].context = {}
    /\ tasks_cfg["red_team_recheck"].context = {"revise_positioning"}
    /\ tasks_cfg["final_step1_report"].context =
          {"revise_positioning", "red_team_recheck"}
    /\ Len(tasks) = 3
    /\ Index(tasks, "revise_positioning") < Index(tasks, "red_team_recheck")
    /\ Index(tasks, "red_team_recheck") < Index(tasks, "final_step1_report")

\* C2: create_tasks never returns a partial result: whenever it has returned,
\* the dict holds exactly the participating tasks, and a configuration with a
\* dependency cycle among participating tasks never makes it return.
C2_RaisesOrComplete ==
    (ct_pc \in {"returned", "crew"})
        => (TaskKeys(tasks) = Participating /\ ~HasCycle)

\* C2 witness: A depends on B, B depends on A, both allow-listed: the
\* "circular dependency" error was raised
C2_Witness ==
    /\ ct_pc = "raised"
    /\ ct_error.kind = "ValueError:blocked"
    /\ {"revise_positioning", "red_team_recheck"} \subseteq Participating
    /\ "red_team_recheck" \in tasks_cfg["revise_positioning"].context
    /\ "revise_positioning" \in tasks_cfg["red_team_recheck"].context

\* C3: with an allow-list, a dependency outside the allow-list counts as
\* satisfied: no created task has such a dependency in its context, and a task
\* left blocked by the "circular dependency" error always waits for an
\* allow-listed dependency that was not created.
C3_OutsideDepsSatisfied ==
    allowed_task_ids.some =>
        /\ \A i \in DOMAIN tasks :
             tasks[i].context \cap (TaskIds \ Range(allowed_task_ids.val)) = {}
        /\ (ct_pc = "raised" /\ ct_error.kind = "ValueError:blocked") =>
             \A t \in remaining :
                \E d \in tasks_cfg[t].context :
                    d \in Range(allowed_task_ids.val) /\ d \notin TaskKeys(tasks)

\* C3 witness: build_final_report_only: the report task references both
\* revision tasks, only the report task is allow-listed, and it was created
\* with an empty context
C3_Witness ==
    /\ ct_pc = "crew"
    /\ allowed_task_ids = Some(<<"final_step1_report">>)
    /\ "final_step1_report" \in DOMAIN tasks_cfg
    /\ tasks_cfg["final_step1_report"].context =
          {"revise_positioning", "red_team_recheck"}
    /\ tasks = <<[id |-> "final_step1_report", context |-> {}]>>

\* C8: within a stage no task is executed before one of its allow-listed
\* dependencies has completed (the execution order is a dependency-respecting
\* order of the configuration).
C8_ExecutionRespectsDependencies ==
    \A i \in DOMAIN executed :
        \A d \in AllowedDeps(executed[i]) :
            \E j \in DOMAIN executed : j < i /\ executed[j] = d

\* ------------------------------------------------- claims on the engine
\* How often the revision stage was kicked off in this run
RevisionKickoffs ==
    Cardinality({i \in DOMAIN trace : trace[i] = <<"kickoff", "revision", "">>})

\* The revision tasks the executor was handed in this run
RevisionTasksStarted ==
    Cardinality({i \in DOMAIN trace : trace[i][1] = "start" /\ trace[i][2] = "revision"})

\* The gate verdict was extracted (main.py 1383 / 1438 was passed)
GatePassed == verdict # ""

\* C4 as the spec states it: after discovery, verdict GO runs zero revision
\* tasks, HOLD runs the revision stage exactly once, NO runs no revision
\* unless revise-on-NO is enabled, and then runs it.
C4_RevisionByVerdict ==
    GatePassed =>
        /\ (verdict = "LANDING_GO" => RevisionKickoffs = 0 /\ RevisionTasksStarted = 0)
        /\ (verdict = "LANDING_HOLD" => RevisionKickoffs = 1)
        /\ (verdict = "LANDING_NO" /\ ~args.revise_no => RevisionKickoffs = 0)
        /\ (verdict = "LANDING_NO" /\ args.revise_no => RevisionKickoffs = 1)

\* C4, amended: with auto-revise enabled, verdict GO runs zero revision tasks,
\* HOLD runs the revision stage exactly once, NO runs no revision unless
\* revise-on-NO is enabled and then runs it once; without auto-revise no
\* revision runs whatever the verdict and whatever revise-on-NO says.
C4_RevisionByVerdictUnderAutoRevise ==
    GatePassed =>
        /\ (verdict = "LANDING_GO" => RevisionKickoffs = 0 /\ RevisionTasksStarted = 0)
        /\ (args.auto_revise /\ verdict = "LANDING_HOLD" => RevisionKickoffs = 1)
        /\ (verdict = "LANDING_NO" /\ ~args.revise_no => RevisionKickoffs = 0)
        /\ (args.auto_revise /\ verdict = "LANDING_NO" /\ args.revise_no
                => RevisionKickoffs = 1)
        /\ (~args.auto_revise => RevisionKickoffs = 0 /\ RevisionTasksStarted = 0)

\* A finished auto-revise run whose gate said HOLD and whose revision stage ran
\* both of its tasks
C4_Witness ==
    /\ e_pc = "returned"
    /\ exit_code = 0
    /\ args.auto_revise
    /\ verdict = "LANDING_HOLD"
    /\ RevisionKickoffs = 1
    /\ RevisionTasksStarted = Len(RevisionOrder)

\* The report stage was reached (its crew was kicked off)
ReportReached == \E i \in DOMAIN trace : trace[i] = <<"kickoff", "final_report", "">>

\* C5: once discovery produced GO, HOLD or NO, the verdict handed to the
\* report stage, and the final verdict of the run, is never UNKNOWN: a failed
\* extraction from the recheck output keeps the verdict of discovery.
C5_FinalVerdictNeverRegresses ==
    (ReportReached /\ verdict \in {"LANDING_GO", "LANDING_HOLD", "LANDING_NO"}) =>
        /\ final_verdict # "UNKNOWN"
        /\ report_inputs.landing_gate_verdict # "UNKNOWN"

\* The gate step is about to be taken on an output without a parsable marker
GateOutputUnparsable ==
    /\ e_pc = "pass1_saved"
    /\ ParseVerdictFromText(crew.raw) = None
    /\ ParseVerdictFromText(SavedFileContent(crew.raw)) = None

ReportTaskStarted ==
    \E i \in DOMAIN trace : trace[i] = <<"start", "final_report", "final_step1_report">>

\* C6: when the gate output holds no parsable verdict marker, the verdict
\* extracted is UNKNOWN and the same step kicks off the report stage, not the
\* revision stage; no revision runs for an UNKNOWN verdict, the run does not
\* fail before the report task was handed to the executor, and the run goes on
\* until the report task was started.
C6_UnknownProceedsToReport ==
    /\ [][(GateOutputUnparsable /\ e_pc' # e_pc) =>
            /\ verdict' = "UNKNOWN"
            /\ e_pc' = "report"
            /\ crew'.stage = "final_report"
            /\ report_inputs'.landing_gate_verdict = "UNKNOWN"]_vars
    /\ [](verdict = "UNKNOWN" =>
            (RevisionKickoffs = 0 /\ (e_pc = "raised" => ReportTaskStarted)))
    /\ ((verdict = "UNKNOWN") ~> ReportTaskStarted)

\* A run whose gate verdict was UNKNOWN returned 0 with its report written
C6_Witness ==
    /\ e_pc = "returned"
    /\ exit_code = 0
    /\ verdict = "UNKNOWN"
    /\ report_file.exists
    /\ RevisionKickoffs = 0
    /\ ReportTaskStarted

\* The tasks of a stage whose end is in the trace before place j
EndedBefore(stage, j) ==
    {trace[i][3] : i \in {k \in DOMAIN trace : k < j /\ trace[k][1] = "end"
                                               /\ trace[k][2] = stage}}

\* The tasks of a stage whose start is in the trace before place j
StartedBefore(stage, j) ==
    {trace[i][3] : i \in {k \in DOMAIN trace : k < j /\ trace[k][1] = "start"
                                               /\ trace[k][2] = stage}}

\* C7: every revision task starts after all discovery tasks have ended; the
\* report task starts after all discovery tasks have ended and after every
\* revision task that was started has ended (all of them, when the revision
\* stage was kicked off).
C7_StagesInOrder ==
    \A j \in DOMAIN trace :
        /\ (trace[j][1] = "start" /\ trace[j][2] = "revision")
              => EndedBefore("pass1", j) = Range(Pass1Order)
        /\ (trace[j][1] = "start" /\ trace[j][2] = "final_report")
              => /\ EndedBefore("pass1", j) = Range(Pass1Order)
                 /\ StartedBefore("revision", j) = EndedBefore("revision", j)
                 /\ (RevisionKickoffs > 0
                        => EndedBefore("revision", j) = Range(RevisionOrder))

\* A finished run in which all three stages ran
C7_Witness ==
    /\ e_pc = "returned"
    /\ exit_code = 0
    /\ RevisionKickoffs = 1
    /\ ReportTaskStarted
    /\ \E j \in DOMAIN trace :
          /\ trace[j] = <<"end", "final_report", "final_step1_report">>
          /\ EndedBefore("revision", j) = Range(RevisionOrder)

\* ---------------------------------------------- claims on the job store
\* C9: for a fixed run_id the progress percent stored in the job record never
\* decreases, whatever the interleaving of task callbacks, monitor updates and
\* terminal updates.
C9_ProgressNeverDecreases ==
    [][\A r \in DOMAIN jobs \cap DOMAIN jobs' :
            jobs'[r].progress >= jobs[r].progress]_vars

\* What startup reconciliation has to make of a persisted record
ExpectedAfterLoad(rec) ==
    IF rec.status \in {"completed", "failed", "pregate_failed"}
    THEN rec
    ELSE [rec EXCEPT !.status = "failed", !.error_message = RestartMessage]

\* C10: the step of _load_jobs loads every persisted record whose status is
\* not terminal as failed with the restart message and every terminal record
\* unchanged; after it no loaded record has a non-terminal status.
C10_StartupReconciliation ==
    [][(srv_pc = "starting" /\ srv_pc' = "up" /\ jobs_file.exists) =>
            \A r \in DOMAIN jobs_file.data :
                /\ r \in DOMAIN jobs'
                /\ jobs'[r] = ExpectedAfterLoad(jobs_file.data[r])
                /\ jobs'[r].status \in {"completed", "failed", "pregate_failed"}]_vars

\* After a restart the store holds a record loaded unchanged as pregate_failed
\* or completed next to a record that was interrupted and is loaded as failed
C10_Witness ==
    /\ srv_pc = "up"
    /\ restarts = 1
    /\ jobs_file.exists
    /\ \E r1, r2 \in DOMAIN jobs \cap DOMAIN jobs_file.data :
          /\ jobs_file.data[r1].status \in {"completed", "pregate_failed"}
          /\ jobs[r1] = jobs_file.data[r1]
          /\ jobs_file.data[r2].status \notin TerminalStatuses
          /\ jobs[r2].status = "failed"
          /\ jobs[r2].error_message = RestartMessage

\* ------------------------------------------- claims on failures of a run
\* The worker of the current run has finished
WorkerDone == w_pc = "done" /\ cur \in DOMAIN jobs

\* C11: when the precheck rejects the input the run ends rejected, a rejection
\* report is persisted and no stage is executed; here for a run started
\* through the worker run_validation_job.
C11_RejectionPersistsReport ==
    (WorkerDone /\ jobs[cur].status = "pregate_failed") =>
        /\ report_file.exists
        /\ trace = <<>>

\* The executor raised in the given stage and the exception left the engine
RaisedIn(stage) == e_pc = "raised" /\ crew.stage = stage

\* No task was handed to the executor twice
NoRetry ==
    \A i, j \in DOMAIN trace :
        (trace[i][1] = "start" /\ trace[j] = trace[i]) => i = j

\* C12: when a task executor raises during discovery the failure is
\* propagated at once (no retry, no later stage is started) and the run's
\* record ends with status failed, carrying the message of the error.
C12_DiscoveryFailurePropagates ==
    (WorkerDone /\ RaisedIn("pass1")) =>
        /\ NoRetry
        /\ RevisionKickoffs = 0
        /\ ~ReportReached
        /\ jobs[cur].status = "failed"
        /\ jobs[cur].error_message = error

\* C13: when discovery fails at task k after tasks 1..k-1 completed, the
\* outputs of tasks 1..k-1 are persisted as per-task files of the run after
\* the run was marked failed.
C13_PartialArtifactsPersisted ==
    (WorkerDone /\ RaisedIn("pass1") /\ jobs[cur].status = "failed") =>
        (crew.done > 0 => (DiscoveryDir(args) \in run_dirs /\ saved_files >= crew.done))

\* C14: when a task executor raises during the revision stage, the run still
\* hands the report task to the executor.
C14_ReportAttemptedAfterRevisionFailure ==
    RaisedIn("revision") => ReportTaskStarted


\* ------------------------------------- claims on the inputs of the stages
\* C15: in every run that reaches the report stage the report inputs hold the
\* final verdict and the persisted discovery artifacts (research summary, gap
\* hypotheses, positioning, gate review), also when the revision stage ran;
\* stated for runs whose files are all on disk under names the lookup finds.
C15_ReportSeededWithFullContext ==
    (ReportReached /\ fs_state = "ok" /\ file_names = IdNames) =>
        /\ report_inputs.landing_gate_verdict = final_verdict
        /\ report_inputs.research_summary = "summarize_research"
        /\ report_inputs.gap_hypotheses = "mine_gaps"
        /\ report_inputs.previous_positioning_output
              \in {"create_pov_and_positioning", "revise_positioning"}
        /\ report_inputs.previous_red_team_output
              \in {"red_team_review", "red_team_recheck"}

\* The discovery files the lookup can read whose name holds a pattern of key
FilesMatching(key) ==
    {t \in ReadableFiles(fs_state, Range(Pass1Order)) :
        \E i \in DOMAIN PatternsOf(key) : PatternsOf(key)[i] \in file_names[t]}

\* C16: when the revision stage is seeded from the discovery stage's files,
\* the step that finds do_revision true kicks off the revision crew whatever
\* the lookup finds; an artifact with no matching readable file (no such
\* file, unreadable file, missing directory) is the empty string and any other
\* is the text of a matching file; no exception leaves the engine but a
\* task's.
C16_MissingArtifactIsEmpty ==
    /\ [][(e_pc = "pass1_saved" /\ e_pc' # e_pc
            /\ DoRevision(args, ExtractVerdictFromCrew(crew.raw))) =>
              /\ e_pc' = "revision"
              /\ crew'.stage = "revision"
              /\ trace' = Append(trace, <<"kickoff", "revision", "">>)]_vars
    /\ [](RevisionKickoffs = 1 =>
            \A k \in ArtifactKeys :
                IF FilesMatching(k) = {}
                THEN revision_inputs[k] = ""
                ELSE revision_inputs[k] \in FilesMatching(k))
    /\ [](e_pc = "raised" => trace[Len(trace)][1] = "raise")

\* Both revision tasks ran although the lookup found files for some keys only
C16_Witness ==
    /\ RevisionTasksStarted = Len(RevisionOrder)
    /\ fs_state = "ok"
    /\ \E k1, k2 \in ArtifactKeys :
          /\ FilesMatching(k1) = {} /\ revision_inputs[k1] = ""
          /\ FilesMatching(k2) # {} /\ revision_inputs[k2] # ""


\* ------------------------------------------- claims on the task contexts
\* The configuration is the chain revise_positioning <- red_team_recheck <-
\* final_step1_report and all three tasks are allow-listed
ChainAllAllowed ==
    /\ DOMAIN tasks_cfg = TaskIds
    /\ tasks_cfg["revise_positioning"].context = {}
    /\ tasks_cfg["red_team_recheck"].context = {"revise_positioning"}
    /\ tasks_cfg["final_step1_report"].context = {"red_team_recheck"}
    /\ allowed_task_ids.some
    /\ Range(allowed_task_ids.val) = TaskIds

\* C17: the context handed to each created task is exactly the set of its
\* declared dependencies that are allow-listed; for a chain of three tasks,
\* all allow-listed, the first task's context is empty, the second's is the
\* first and the third's is the second.
C17_ContextIsAllowedDeclaredDeps ==
    /\ \A i \in DOMAIN tasks :
          /\ tasks[i].id \in DOMAIN tasks_cfg
          /\ tasks[i].context = AllowedDeps(tasks[i].id)
    /\ ChainAllAllowed =>
          \A i \in DOMAIN tasks :
              tasks[i].context =
                  CASE tasks[i].id = "revise_positioning" -> {}
                    [] tasks[i].id = "red_team_recheck" -> {"revise_positioning"}
                    [] tasks[i].id = "final_step1_report" -> {"red_team_recheck"}

\* The chain was built: three tasks, each with its one declared dependency
C17_Witness ==
    /\ ChainAllAllowed
    /\ ct_pc = "crew"
    /\ tasks = <<[id |-> "revise_positioning", context |-> {}],
                 [id |-> "red_team_recheck", context |-> {"revise_positioning"}],
                 [id |-> "final_step1_report", context |-> {"red_team_recheck"}]>>

\* ------------------------------------- claims on the job store's writers
\* C18: the store writes through on every mutation: while the server is up,
\* every record of the in-memory store is in the persisted store in the same
\* state (after validate_idea, _update_job_status and _load_jobs alike).
C18_WriteThrough ==
    srv_pc = "up" =>
        \A r \in DOMAIN jobs :
            /\ jobs_file.exists
            /\ r \in DOMAIN jobs_file.data
            /\ jobs_file.data[r] = jobs[r]

\* C20: once the record of a run has a terminal status, no step of the
\* worker, of a task callback or of the monitor thread changes its status.
C20_TerminalStatusIsFinal ==
    [][\A r \in DOMAIN jobs \cap DOMAIN jobs' :
            jobs[r].status \in TerminalStatuses =>
                jobs'[r].status = jobs[r].status]_vars

\* No call of _update_job_status is in flight
NoUpdateInFlight == \A c \in Callers : c_pc[c] = "idle"

\* C19: concurrent writers of the job store are serialized: once all
\* in-flight updates have finished, the persisted store holds the in-memory
\* records, not an older snapshot.
C19_WritersSerialized ==
    (NoUpdateInFlight /\ \E c \in Callers : c_calls[c] > 0) =>
        (jobs_file.exists /\ jobs_file.data = jobs)

\* ------------------------------------- claims on the progress reporting
\* C21: the polling thread tests the run's status on each tick and leaves its
\* loop once the run is terminal: on every tick after the worker has finished
\* the run, the status it tests is terminal.
C21_MonitorSeesTerminalStatus ==
    (w_pc = "done" /\ cur \in DOMAIN jobs /\ m_pc = "check") =>
        jobs[cur].status \in TerminalStatuses

\* The progress callback of the current run was called for the task with
\* the status
CallbackReceived(task, status) ==
    \E j \in DOMAIN job_logs[cur] : job_logs[cur][j][2] = <<task, status>>

\* C22: the injected progress callback receives an event when a task starts
\* and when it completes, for each task executed in the discovery, revision
\* and report stages.
C22_CallbackAtEveryTaskBoundary ==
    (w_pc \in {"engine", "done"} /\ cur \in DOMAIN job_logs) =>
        \A i \in DOMAIN trace :
            /\ trace[i][1] = "start" => CallbackReceived(trace[i][3], "started")
            /\ trace[i][1] = "end" => CallbackReceived(trace[i][3], "completed")

\* C23: in the events a stage's tracker emits, the completed event of a task
\* directly follows the started event of the same task: started(t1),
\* completed(t1), started(t2), completed(t2), ...
C23_StartedBeforeCompleted ==
    \A j \in DOMAIN crew.events :
        crew.events[j].kind = "completed" =>
            /\ j > 1
            /\ crew.events[j - 1].kind = "started"
            /\ crew.events[j - 1].task = crew.events[j].task

\* The percent window of a stage, as the claim states it
Window(stage) ==
    CASE stage = "pass1" -> <<5, 70>>
      [] stage = "revision" -> <<70, 85>>
      [] stage = "final_report" -> <<85, 100>>

\* C24: the percent a tracker with a callback emits after idx tasks have
\* completed is low + floor(idx * (high - low) / count) for the window
\* [low, high] of its stage and its count tasks; idx never exceeds count and
\* every emitted percent lies in [low, high].
C24_PercentInWindow ==
    /\ crew.idx <= Len(crew.order)
    /\ crew.cb =>
        \A j \in DOMAIN crew.events :
            LET e == crew.events[j]
                low == Window(crew.stage)[1]
                high == Window(crew.stage)[2]
            IN /\ e.idx <= Len(crew.order)
               /\ e.percent = low + ((e.idx * (high - low)) \div Len(crew.order))
               /\ low <= e.percent /\ e.percent <= high

\* The tracker of the revision stage emitted 77 after the first of its two
\* tasks and 85 after the second, and the record holds the last percent
C24_Witness ==
    /\ crew.stage = "revision"
    /\ crew.cb
    /\ crew.idx = 2
    /\ \E i, j \in DOMAIN crew.events :
          /\ crew.events[i].idx = 1 /\ crew.events[i].percent = 77
          /\ crew.events[j].idx = 2 /\ crew.events[j].percent = 85


\* ------------------------------------------------- claims on list_jobs
\* The number of records a limit allows: none for a limit below zero
Allowed(limit) == IF limit > 0 THEN limit ELSE 0

\* C25: list_jobs(limit) returns at most limit records, ordered by creation
\* time descending, and they are the limit most recently created records of
\* the store (all of them when the store holds fewer).
C25_ListRecent ==
    l_pc = "listed" =>
        /\ Len(l_result) <= Allowed(l_limit)
        /\ \A i, j \in DOMAIN l_result :
              i < j => l_result[i].created_at >= l_result[j].created_at
        /\ \A i \in DOMAIN l_result : \E k \in DOMAIN l_jobs : l_jobs[k] = l_result[i]
        /\ Len(l_result) = IF Allowed(l_limit) < Len(l_jobs)
                           THEN Allowed(l_limit) ELSE Len(l_jobs)
        /\ \A k \in DOMAIN l_jobs :
              (\A i \in DOMAIN l_result : l_result[i] # l_jobs[k]) =>
                  \A i \in DOMAIN l_result : l_result[i].created_at >= l_jobs[k].created_at

\* ------------------------------------------- claims on create_tasks' error
\* The unmet dependencies of a blocked task: its allow-listed dependencies
\* that are not among the created tasks
Unmet(t) == { d \in AllowedDeps(t) : d \notin TaskKeys(tasks) }

\* C26: the error create_tasks raises when a pass resolves nothing names
\* exactly the unresolved tasks and, for each of them, its unmet dependencies
\* (its allow-listed dependencies that were not resolved).
C26_BlockedErrorNamesUnmetDeps ==
    (ct_pc = "raised" /\ ct_error.kind = "ValueError:blocked") =>
        /\ DOMAIN ct_error.blocked = remaining
        /\ \A t \in remaining : ct_error.blocked[t] = Unmet(t)


\* ---------------------------------------- claims on the terminal records
\* C27: every record with terminal status failed carries a non-empty error
\* message, and every record with terminal status pregate_failed carries the
\* precheck's rejection reasons.
C27_TerminalRecordsCarryReason ==
    \A r \in DOMAIN jobs :
        /\ jobs[r].status = "failed" => jobs[r].error_message \notin {None, ""}
        /\ jobs[r].status = "pregate_failed" => jobs[r].error_message = PregateReasons


\* ------------------------------------------ claims on failures of the save
\* C28: a failure to persist the job store is only logged: whenever a thread
\* leaves _save_jobs, it returns to its caller (nothing is raised), the
\* in-memory records and logs are as they were before the step (the update
\* that was being saved is kept), and either the file holds the copy that
\* was being saved or the failure was printed.
C28_SaveFailureOnlyLogged ==
    [][\A c \in Callers :
         (c_pc[c] \in {"save", "write"} /\ c_pc'[c] \notin {"save", "write"}) =>
            /\ c_pc'[c] = "idle"
            /\ jobs' = jobs
            /\ job_logs' = job_logs
            /\ \/ jobs_file' = SaveJobs(c_snap[c]) /\ c_failed'[c] = c_failed[c]
               \/ c_failed'[c] = c_failed[c] + 1]_vars

\* C28 witness: the worker's first save failed, its record kept the update,
\* and the worker has made its next call and updated the record again
C28_Witness ==
    /\ c_failed["worker"] = 1
    /\ c_calls["worker"] = 2
    /\ c_pc["worker"] = "log"
    /\ c_calls["monitor"] = 0
    /\ ~jobs_file.exists
    /\ jobs[c_args["worker"].run_id].status = "completed"

DiscoveryReached == \E i \in DOMAIN trace : trace[i] = <<"kickoff", "pass1", "">>

\* The keys stage_times uses for the three stages
DiscoveryKeys == {"Pass 1 (Research + Gate)", "Stage 1 (Research + Gate)"}
RevisionKeys == {"Pass 2 (Revision)"}
ReportKeys == {"Stage B (Report)"}

\* C30: in a run that returned 0, stage_times holds an entry for every stage
\* that was executed (discovery, revision if run, report), under auto-revise
\* and in the standard mode alike.
C30_EveryStageTimed ==
    (e_pc = "returned" /\ exit_code = 0) =>
        /\ DiscoveryReached => stage_times \cap DiscoveryKeys # {}
        /\ RevisionKickoffs > 0 => stage_times \cap RevisionKeys # {}
        /\ ReportReached => stage_times \cap ReportKeys # {}


\* --------------------------------- claims on create_tasks as a resolution
\* Kahn's algorithm on the participating tasks, an edge for every allow-listed
\* dependency (a dependency the configuration does not define is never
\* processed): ready holds the tasks of in-degree 0 not yet processed
RECURSIVE Kahn(_, _, _)
Kahn(ready, indeg, processed) ==
    IF ready = {} THEN processed
    ELSE LET t == CHOOSE x \in ready : TRUE
             dependents == { u \in Participating : t \in AllowedDeps(u) }
             indeg2 == [u \in Participating |->
                          IF u \in dependents THEN indeg[u] - 1 ELSE indeg[u]]
             newly == { u \in dependents : indeg2[u] = 0 }
         IN Kahn((ready \ {t}) \cup newly, indeg2, processed \cup {t})

KahnProcessed ==
    LET indeg == [u \in Participating |-> Cardinality(AllowedDeps(u))]
    IN Kahn({ u \in Participating : indeg[u] = 0 }, indeg, {})

\* create_tasks returned its dict (the builder may act on it afterwards)
CreateTasksReturned ==
    \/ ct_pc \in {"returned", "crew"}
    \/ ct_pc = "raised" /\ ct_error.kind = "KeyError:task_order"

\* C31: create_tasks agrees with Kahn's algorithm over the allow-listed
\* dependency edges: it returns only when Kahn's algorithm processes every
\* participating task, and it raises the blocked error only when Kahn's
\* algorithm leaves tasks unprocessed, and then the tasks it reports are the
\* tasks Kahn's algorithm leaves; while it runs, the tasks it has created are
\* tasks Kahn's algorithm processes.
C31_AgreesWithKahn ==
    /\ CreateTasksReturned =>
          /\ KahnProcessed = Participating
          /\ TaskKeys(tasks) = Participating
    /\ (ct_pc = "raised" /\ ct_error.kind = "ValueError:blocked") =>
          /\ KahnProcessed # Participating
          /\ DOMAIN ct_error.blocked = Participating \ KahnProcessed
          /\ TaskKeys(tasks) = KahnProcessed
    /\ ct_pc \notin {"call"} => TaskKeys(tasks) \subseteq KahnProcessed

\* C31 witness: one task was resolved and two tasks that depend on each other
\* were reported blocked, as Kahn's algorithm leaves them
C31_Witness ==
    /\ ct_pc = "raised"
    /\ ct_error.kind = "ValueError:blocked"
    /\ Len(tasks) = 1
    /\ Cardinality(DOMAIN ct_error.blocked) = 2
    /\ KahnProcessed = TaskKeys(tasks)

\* create_tasks has finished: it returned (and the builder acted) or raised
CreateTasksFinished == ct_pc \in {"returned", "crew", "raised"}

\* C32: create_tasks terminates: every pass of the while loop that does not
\* raise has created at least one task, so no more passes are begun than
\* there are participating tasks, and the call finishes.
C32_CreateTasksTerminates ==
    /\ [](/\ passes <= Cardinality(Participating)
          /\ ct_pc = "while" => passes <= Len(tasks)
          /\ (ct_pc = "for" /\ ~progress) => passes <= Len(tasks) + 1)
    /\ <>CreateTasksFinished

\* C32 witness: three chained tasks were resolved in three passes
C32_Witness ==
    /\ ct_pc = "returned"
    /\ passes = 3
    /\ Len(tasks) = 3

\* ------------------------------------------------ claims on the job's end
\* C33: every accepted job reaches a terminal status and stays there: once
\* run_validation_job has ended for a run (each of its paths ends with a
\* terminal update), the run's record has a terminal status, whatever the
\* polling thread does.
C33_JobEndsTerminal ==
    WorkerDone => jobs[cur].status \in TerminalStatuses

\* ------------------------------------------------- claims on the stream
\* The indices of the log messages delivered, in the order of delivery
RECURSIVE LogIndices(_)
LogIndices(evs) ==
    IF evs = <<>> THEN <<>>
    ELSE (IF Head(evs)[1] = "log" THEN <<Head(evs)[2]>> ELSE <<>>) \o LogIndices(Tail(evs))

DoneSent == \E i \in DOMAIN g_sent : g_sent[i][1] = "done"

\* C34: the subscriber receives every log message of the run once and in the
\* order it was appended (the messages delivered are messages 1, 2, 3, ...
\* without a gap), and the done event is the last event, emitted only after
\* all log messages of the run were delivered, the terminal update's included.
C34_StreamDeliversAllLogs ==
    /\ \A k \in DOMAIN LogIndices(g_sent) : LogIndices(g_sent)[k] = k
    /\ \A k \in DOMAIN g_sent :
         /\ g_sent[k][1] = "log" => g_sent[k][3] = job_logs[StreamRun][g_sent[k][2]]
         /\ g_sent[k][1] = "done" => k = Len(g_sent)
    /\ DoneSent => Len(LogIndices(g_sent)) = Len(job_logs[StreamRun])

\* ------------------------------------------- claims on the stages of a run
\* How often the stage was kicked off, the task started, the task ended
Kickoffs(stage) == Cardinality({i \in DOMAIN trace : trace[i] = <<"kickoff", stage, "">>})
Starts(task) == Cardinality({i \in DOMAIN trace : trace[i][1] = "start" /\ trace[i][3] = task})
Ends(task) == Cardinality({i \in DOMAIN trace : trace[i][1] = "end" /\ trace[i][3] = task})

AtMostOnceEach ==
    /\ Range(Pass1Order) \cap Range(RevisionOrder) = {}
    /\ Range(Pass1Order) \cap Range(ReportOrder) = {}
    /\ Range(RevisionOrder) \cap Range(ReportOrder) = {}
    /\ \A stage \in {"pass1", "revision", "final_report"} : Kickoffs(stage) <= 1
    /\ \A t \in AllTasks : Starts(t) <= 1 /\ Ends(t) <= Starts(t)

\* C35 as stated: every stage and every task is executed at most once in a
\* run (disjoint task sets, no second revision), and the report task runs
\* exactly once in every run that returns exit code 0.
C35_OnceEachReportOnZero ==
    /\ AtMostOnceEach
    /\ (e_pc = "returned" /\ exit_code = 0) =>
          Starts("final_step1_report") = 1 /\ Ends("final_step1_report") = 1

\* C35, amended: every stage and every task is executed at most once in a
\* run (disjoint task sets, no second revision), and the report task runs
\* exactly once in every run that returns exit code 0 and is no dry run; a
\* dry run returns 0 or 1 and executes no task.
C35_OnceEachReportOnZeroUnlessDryRun ==
    /\ AtMostOnceEach
    /\ (e_pc = "returned" /\ exit_code = 0 /\ ~args.dry_run) =>
          Starts("final_step1_report") = 1 /\ Ends("final_step1_report") = 1
    /\ (e_pc = "returned" /\ args.dry_run) => trace = <<>>

\* C35 witness: a run returned 0 whose gate said NO, was revised, and whose
\* recheck said HOLD: the revision stage ran once, the report task once
C35_Witness ==
    /\ e_pc = "returned"
    /\ exit_code = 0
    /\ verdict = "LANDING_NO"
    /\ final_verdict = "LANDING_HOLD"
    /\ Kickoffs("revision") = 1
    /\ Starts("red_team_recheck") = 1
    /\ Starts("final_step1_report") = 1

\* C36: without auto-revise the engine never executes the revision stage,
\* whatever the gate verdict: after discovery it extracts the verdict and
\* kicks off the report stage with that verdict.
C36_StandardModeNeverRevises ==
    ~args.auto_revise =>
        /\ Kickoffs("revision") = 0
        /\ \A t \in Range(RevisionOrder) : Starts(t) = 0
        /\ "_pass2" \notin run_dirs
        /\ e_pc \notin {"revision", "revision_saved"}
        /\ ReportReached =>
              /\ report_inputs.landing_gate_verdict = verdict
              /\ final_verdict = verdict
              /\ \A t \in Range(Pass1Order) : Ends(t) = 1

\* C36 witness: a standard run whose gate said HOLD returned 0 with the
\* report run on HOLD and no revision
C36_Witness ==
    /\ ~args.auto_revise
    /\ args.revise_no
    /\ verdict = "LANDING_HOLD"
    /\ e_pc = "returned"
    /\ exit_code = 0
    /\ Starts("final_step1_report") = 1
    /\ report_inputs.landing_gate_verdict = "LANDING_HOLD"

\* ------------------------------------ claims on _update_job_status' frame
\* C37: a call _update_job_status(run_id, ...) changes only the record and
\* the log list of run_id: whichever statement a caller executes, the records
\* and log lists of all other runs are as before and no record or log list
\* comes into being; and a call for a run that is not in the store returns
\* with nothing changed and nothing persisted.
C37_UpdateTouchesOnlyItsRun ==
    [][\A c \in Callers :
         c_pc'[c] # c_pc[c] \/ c_calls'[c] # c_calls[c] =>
            /\ DOMAIN jobs' = DOMAIN jobs
            /\ DOMAIN job_logs' = DOMAIN job_logs
            /\ \A r \in DOMAIN jobs :
                 r # c_args'[c].run_id =>
                    jobs'[r] = jobs[r] /\ job_logs'[r] = job_logs[r]
            /\ c_args'[c].run_id \notin DOMAIN jobs =>
                 /\ c_pc'[c] = "idle"
                 /\ jobs' = jobs /\ job_logs' = job_logs /\ jobs_file' = jobs_file]_vars

\* C37 witness: the store holds r1 only; the worker has completed an update
\* of r1, the monitor's call named r2 and returned, and r1 holds the worker's
\* update
C37_Witness ==
    /\ DOMAIN jobs = {"r1"}
    /\ c_calls["monitor"] = 1 /\ c_args["monitor"].run_id = "r2" /\ c_pc["monitor"] = "idle"
    /\ c_calls["worker"] = 1 /\ c_args["worker"].run_id = "r1" /\ c_pc["worker"] = "idle"
    /\ jobs["r1"].status = c_args["worker"].status
    /\ Len(job_logs["r1"]) = 1
    /\ jobs_file.exists

\* --------------------------------------------- claims on the job's verdict
\* C38: the verdict stored in the record of a completed run is the final
\* verdict the engine computed (after revision if it ran, otherwise after
\* discovery, UNKNOWN included).
C38_StoredVerdictIsFinalVerdict ==
    (WorkerDone /\ jobs[cur].status = "completed") =>
        jobs[cur].verdict = final_verdict


\* ----------------------------------------------------------------------
\* C39: _parse_verdict_from_text returns only LANDING_GO, LANDING_HOLD,
\* LANDING_NO or None.  A new-format marker VALIDATION_X yields LANDING_X,
\* the legacy markers PASS and FAIL yield LANDING_GO and LANDING_NO, and
\* when markers of both formats occur in the text the first new-format
\* marker decides, wherever the legacy marker stands.
\* ----------------------------------------------------------------------
NewPlaces(text) == {i \in DOMAIN text : text[i] \in NewFormatWords}
LegacyPlaces(text) == {i \in DOMAIN text : text[i] \in LegacyWords}
Leftmost(S) == CHOOSE i \in S : \A j \in S : i <= j

Landing(word) ==
    CASE word \in {"LANDING_GO", "VALIDATION_GO", "PASS"} -> "LANDING_GO"
      [] word \in {"LANDING_HOLD", "VALIDATION_HOLD"} -> "LANDING_HOLD"
      [] word \in {"LANDING_NO", "VALIDATION_NO", "FAIL"} -> "LANDING_NO"

C39_ParseNormalisesNewFormatFirst ==
    p_pc = "parsed" =>
        /\ p_result \in LandingWords \cup {None}
        /\ NewPlaces(p_text) # {} =>
               p_result = Landing(p_text[Leftmost(NewPlaces(p_text))])
        /\ (NewPlaces(p_text) = {} /\ LegacyPlaces(p_text) # {}) =>
               p_result = Landing(p_text[Leftmost(LegacyPlaces(p_text))])
        /\ (NewPlaces(p_text) = {} /\ LegacyPlaces(p_text) = {}) =>
               p_result = None

\* a legacy FAIL stands before VALIDATION_HOLD and the result is LANDING_HOLD
C39_Witness ==
    /\ p_pc = "parsed"
    /\ p_text = <<"FAIL", "VALIDATION_HOLD">>
    /\ p_result = "LANDING_HOLD"

\* ----------------------------------------------------------------------
\* C40: every record whose status is researching, analyzing or
\* generating_report holds a percent that goes with that status:
\* researching below 50, analyzing from 50 to 84, generating_report from
\* 85 on, whichever of the worker, the task-boundary callback and the
\* polling thread wrote it.
\* ----------------------------------------------------------------------
C40_StatusAgreesWithPercent ==
    \A r \in DOMAIN jobs :
        /\ jobs[r].status = "researching" => jobs[r].progress < 50
        /\ jobs[r].status = "analyzing" =>
               (50 <= jobs[r].progress /\ jobs[r].progress < 85)
        /\ jobs[r].status = "generating_report" => jobs[r].progress >= 85

\* a progress update wrote the lowest percent of the analyzing band
C40_Witness ==
    \E r \in DOMAIN jobs :
        jobs[r].status = "analyzing" /\ jobs[r].progress = 50
====
